---- MODULE Spec2Model ----
(***************************************************************************)
(* Model of the Kumon worksheet generator.                                 *)
(*                                                                         *)
(* ProblemGenerator.generate_problems (src/problem_generator.py) is one    *)
(* call of the chat-completion API followed by a line-by-line clean-up of  *)
(* the reply, a second filtering pass, and a reconciliation of the number  *)
(* of problems with the requested count (truncate, pad, or fall back to    *)
(* the random generator).  Text is modelled as a sequence of characters,   *)
(* each character a one-character string, and the regular expressions of   *)
(* the source are modelled by what they match.                             *)
(***************************************************************************)
EXTENDS Integers, Sequences, FiniteSets, TLC

(***************************************************************************)
(* Bounds of the model.                                                    *)
(***************************************************************************)
\* largest requested count num_problems
MaxN == 5
\* longest reply built freely from the core lines
MaxLines == 2
\* number of states of the pseudo-random generator
RngPeriod == 4

(***************************************************************************)
(* Characters and strings.                                                 *)
(***************************************************************************)
\* str.strip() and the regex class \s
Whitespace == {" ", "\t", "\n"}

\* the regex class \d
Digit == {"0", "1", "2", "3", "4", "5", "6", "7", "8", "9"}

Upper == <<"A", "B", "C", "D", "E", "F", "G", "H", "I", "J", "K", "L", "M",
           "N", "O", "P", "Q", "R", "S", "T", "U", "V", "W", "X", "Y", "Z">>

LowerLetters == <<"a", "b", "c", "d", "e", "f", "g", "h", "i", "j", "k", "l", "m",
                  "n", "o", "p", "q", "r", "s", "t", "u", "v", "w", "x", "y", "z">>

\* str.lower() on one character
LowerChar(c) ==
    IF \E i \in 1..26 : Upper[i] = c
    THEN LowerLetters[CHOOSE i \in 1..26 : Upper[i] = c]
    ELSE c

\* str.lower()
Lower(s) == [i \in 1..Len(s) |-> LowerChar(s[i])]

\* str.startswith(p)
StartsWith(s, p) == Len(s) >= Len(p) /\ SubSeq(s, 1, Len(p)) = p

\* a match of the literal p at the start of s under re.IGNORECASE (p in lower case)
StartsWithIgnoreCase(s, p) == Len(s) >= Len(p) /\ Lower(SubSeq(s, 1, Len(p))) = p

\* the operator "p in s" on strings
Contains(s, p) == \E i \in 0..(Len(s) - Len(p)) : SubSeq(s, i + 1, i + Len(p)) = p

\* str.strip(): the text without its leading and trailing whitespace
Strip(s) ==
    IF \A i \in 1..Len(s) : s[i] \in Whitespace
    THEN <<>>
    ELSE LET first == CHOOSE i \in 1..Len(s) :
                          s[i] \notin Whitespace /\ \A j \in 1..(i - 1) : s[j] \in Whitespace
             last  == CHOOSE i \in 1..Len(s) :
                          s[i] \notin Whitespace /\ \A j \in (i + 1)..Len(s) : s[j] \in Whitespace
         IN  SubSeq(s, first, last)

\* str.split('\n'): always at least one piece, the pieces hold no newline
RECURSIVE Split(_)
Split(s) ==
    IF \A i \in 1..Len(s) : s[i] # "\n"
    THEN <<s>>
    ELSE LET nl == CHOOSE i \in 1..Len(s) : s[i] = "\n" /\ \A j \in 1..(i - 1) : s[j] # "\n"
         IN  <<SubSeq(s, 1, nl - 1)>> \o Split(SubSeq(s, nl + 1, Len(s)))

\* '\n'.join(ls): how a reply of several lines is written
RECURSIVE Join(_)
Join(ls) ==
    IF ls = <<>> THEN <<>>
    ELSE IF Len(ls) = 1 THEN ls[1]
    ELSE ls[1] \o <<"\n">> \o Join(Tail(ls))

\* str(n) for n >= 0, as an f-string formats an integer
RECURSIVE IntToStr(_)
IntToStr(n) ==
    LET d == <<"0", "1", "2", "3", "4", "5", "6", "7", "8", "9">>[(n % 10) + 1]
    IN  IF n < 10 THEN <<d>> ELSE IntToStr(n \div 10) \o <<d>>

Min(a, b) == IF a <= b THEN a ELSE b

(***************************************************************************)
(* The regular expressions of generate_problems.                           *)
(***************************************************************************)
\* where a greedy \d* starting at index i stops: the first index that holds no digit
DigitsEnd(s, i) ==
    IF \E j \in i..Len(s) : s[j] \notin Digit
    THEN CHOOSE j \in i..Len(s) : s[j] \notin Digit /\ \A k \in i..(j - 1) : s[k] \in Digit
    ELSE Len(s) + 1

\* where a greedy \s* starting at index i stops
SpaceEnd(s, i) ==
    IF \E j \in i..Len(s) : s[j] \notin Whitespace
    THEN CHOOSE j \in i..Len(s) : s[j] \notin Whitespace /\ \A k \in i..(j - 1) : s[k] \in Whitespace
    ELSE Len(s) + 1

kw_problem == <<"p", "r", "o", "b", "l", "e", "m">>
kw_example == <<"e", "x", "a", "m", "p", "l", "e">>
kw_note == <<"n", "o", "t", "e", ":">>
kw_hint == <<"h", "i", "n", "t", ":">>

\* first alternative of the marker pattern: one or more digits, one of . ) : and any
\* whitespace; the length of its match at the start of s, 0 when it does not match
NumberMarker(s) ==
    LET d == DigitsEnd(s, 1)
    IN  IF d > 1 /\ d <= Len(s) /\ s[d] \in {".", ")", ":"}
        THEN SpaceEnd(s, d + 1) - 1
        ELSE 0

\* second alternative: an optional opening parenthesis, digits, a closing parenthesis
\* and any whitespace; the length of its match at the start of s, 0 when none
ParenMarker(s) ==
    LET p == IF Len(s) >= 1 /\ s[1] = "(" THEN 2 ELSE 1
        d == DigitsEnd(s, p)
    IN  IF d > p /\ d <= Len(s) /\ s[d] = ")"
        THEN SpaceEnd(s, d + 1) - 1
        ELSE 0

\* third alternative: the word Problem in any letter case, whitespace, digits, an
\* optional colon and any whitespace; the length of its match at the start of s, 0 when none
ProblemMarker(s) ==
    IF ~StartsWithIgnoreCase(s, kw_problem) THEN 0
    ELSE LET w == SpaceEnd(s, Len(kw_problem) + 1)
             d == DigitsEnd(s, w)
             c == IF d <= Len(s) /\ s[d] = ":" THEN d + 1 ELSE d
         IN  IF w > Len(kw_problem) + 1 /\ d > w THEN SpaceEnd(s, c) - 1 ELSE 0

\* the marker pattern without its second alternative: "(n)" is no longer a marker
StripMarker_NoParen(s) ==
    LET n == IF NumberMarker(s) > 0 THEN NumberMarker(s) ELSE ProblemMarker(s)
    IN  SubSeq(s, n + 1, Len(s))

\* re.sub of the marker pattern by '' (flags=re.IGNORECASE): the pattern is anchored at
\* the start, its alternatives are tried in order and the first that matches is removed, once
StripMarker(s) ==
    LET n == IF NumberMarker(s) > 0 THEN NumberMarker(s)
             ELSE IF ParenMarker(s) > 0 THEN ParenMarker(s)
             ELSE ProblemMarker(s)
    IN  SubSeq(s, n + 1, Len(s))

\* the prefixes given to line.strip().startswith, case-sensitive
CodePrefixes ==
    { <<"#">>, <<"/", "/">>, <<"/", "*">>, <<"d", "e", "f", " ">>,
      <<"i", "m", "p", "o", "r", "t", " ">>,
      <<"f", "u", "n", "c", "t", "i", "o", "n", " ">>,
      <<"p", "r", "i", "n", "t", "(">> }

IsCodeStart(s) == \E p \in CodePrefixes : StartsWith(Strip(s), p)

\* re.match of ^problem\s+\d+ or ^example\s+\d+ (IGNORECASE) with keyword kw
MatchesNumbered(s, kw) ==
    /\ StartsWithIgnoreCase(s, kw)
    /\ LET w == SpaceEnd(s, Len(kw) + 1)
       IN  w > Len(kw) + 1 /\ w <= Len(s) /\ s[w] \in Digit

\* the skip patterns matched without re.IGNORECASE
IsExplanation_CaseSensitive(s) ==
    \/ StartsWith(s, kw_problem) /\ MatchesNumbered(s, kw_problem)
    \/ StartsWith(s, kw_example) /\ MatchesNumbered(s, kw_example)
    \/ StartsWith(s, kw_note)
    \/ StartsWith(s, kw_hint)

\* skip_patterns: ^problem\s+\d+  ^example\s+\d+  ^note:  ^hint:  (IGNORECASE)
IsExplanation(s) ==
    \/ MatchesNumbered(s, kw_problem)
    \/ MatchesNumbered(s, kw_example)
    \/ StartsWithIgnoreCase(s, kw_note)
    \/ StartsWithIgnoreCase(s, kw_hint)

\* the character class of has_math: a digit or one of = + - × ÷ / ² ^ and the parentheses
MathChars == Digit \cup {"=", "+", "-", "×", "÷", "/", "²", "^", "(", ")"}

HasMath(s) == \E i \in 1..Len(s) : s[i] \in MathChars

\* the shortest accepted line: len(line) < 2 is skipped
MinProblemLen == 2
\* 5 <= len(line) <= 200
MinWordLen == 5
MaxWordLen == 200

\* the length test with its lower end excluded
IsReasonableLength_Exclusive(s) == MinWordLen < Len(s) /\ Len(s) <= MaxWordLen

IsReasonableLength(s) == MinWordLen <= Len(s) /\ Len(s) <= MaxWordLen

\* the tests of the first pass on a line whose marker has been removed: lines 114-132
PassesFirstPass(line) ==
    IF line = <<>> \/ Len(line) < MinProblemLen THEN FALSE
    ELSE IF IsCodeStart(line) THEN FALSE
    ELSE IF IsExplanation(line) THEN FALSE
    ELSE HasMath(line) \/ IsReasonableLength(line)

\* a line of the reply once stripped, its marker removed, and stripped again: lines 105-111
Unmarked(raw_line) == Strip(StripMarker(Strip(raw_line)))

\* the first pass on one line of the reply: <<>> when the line is skipped,
\* <<p>> when the cleaned line p is appended to problems
CleanLine(raw_line) ==
    IF Strip(raw_line) = <<>> THEN <<>>
    ELSE IF PassesFirstPass(Unmarked(raw_line)) THEN <<Unmarked(raw_line)>>
    ELSE <<>>

\* the words of the second pass, looked for in p.lower()
CodeWords ==
    { <<"d", "e", "f", " ">>, <<"f", "u", "n", "c", "t", "i", "o", "n", "(">>,
      <<"r", "e", "t", "u", "r", "n", " ">>, <<"i", "m", "p", "o", "r", "t", " ">>,
      <<"p", "r", "i", "n", "t", "(">> }

\* the words looked for in p instead of p.lower()
ContainsCodeWord_CaseSensitive(p) == \E w \in CodeWords : Contains(p, w)

ContainsCodeWord(p) == LET lowered == Lower(p) IN \E w \in CodeWords : Contains(lowered, w)

\* the second pass on one element of problems: is it appended to valid_problems
IsValidProblem(p) ==
    IF p = <<>> \/ Len(p) < MinProblemLen THEN FALSE
    ELSE IF ContainsCodeWord(p) THEN FALSE
    ELSE HasMath(p) \/ (Len(p) >= MinWordLen /\ Len(p) <= MaxWordLen)

(***************************************************************************)
(* Replies of the model API.  A reply is the text of                       *)
(* response.choices[0].message.content, its lines joined by newlines.      *)
(***************************************************************************)
\* lines every reply may be built from
ln_mul == <<"1", ".", " ", "3", " ", "×", " ", "4", " ", "=">>
ln_add == <<"2", ".", " ", "5", " ", "+", " ", "2", " ", "=">>
ln_note == <<"N", "o", "t", "e", ":", " ", "f", "o", "o">>
ln_hash == <<"#", " ", "c", "o", "d", "e">>
ln_blank == <<>>

\* lines that carry an enumeration marker
mk_paren == <<"3", ")", " ", "7", " ", "-", " ", "2", " ", "=">>
mk_parens == <<"(", "4", ")", " ", "6", " ", "÷", " ", "3", " ", "=">>
mk_problem == <<"P", "r", "o", "b", "l", "e", "m", " ", "5", ":", " ", "8", " ", "+", " ", "1", " ", "=">>
mk_PROBLEM == <<"P", "R", "O", "B", "L", "E", "M", " ", "6", ":", " ", "x", "²", " ", "=", " ", "9">>
mk_problem_lc == <<"p", "r", "o", "b", "l", "e", "m", " ", "7", ":", " ", "S", "o", "l", "v", "e", " ", "3", "x", " ", "=", " ", "6">>
mk_two_digit == <<"1", "2", ".", " ", "9", " ", "×", " ", "9", " ", "=">>
mk_short_rest == <<"1", ".", " ", "x">>
mk_note_rest == <<"2", ".", " ", "N", "o", "t", "e", ":", " ", "b", "a", "r">>
mk_problem_rest == <<"1", ".", " ", "P", "r", "o", "b", "l", "e", "m", " ", "2", ":", " ", "3", " ", "+", " ", "4", " ", "=">>
mk_only == <<"P", "r", "o", "b", "l", "e", "m", " ", "8">>
mk_padded == <<" ", " ", "7", " ", "+", " ", "8", " ", "=", " ", " ">>

\* lines at the edges of the acceptance test
ac_x == <<"x">>
ac_5 == <<"5">>
ac_12 == <<"1", "2">>
ac_ab == <<"a", "b">>
ac_abcd == <<"a", "b", "c", "d">>
ac_hello == <<"h", "e", "l", "l", "o">>
ac_caret == <<"a", "^", "b">>
ac_square == <<"x", "²">>
ac_div == <<"a", "÷", "b">>
ac_slash == <<"a", "/", "b">>
ac_open == <<"(", "a">>
ac_close == <<"a", ")">>
ac_minus == <<"a", "-", "b">>
ac_equals == <<"a", "=", "b">>
ac_plus == <<"a", "+", "b">>
ac_times == <<"a", "×", "b">>
\* a word of n letters
RECURSIVE Word(_)
Word(n) ==
    IF n = 0 THEN <<>>
    ELSE IF n % 2 = 0 THEN LET half == Word(n \div 2) IN half \o half
    ELSE Append(Word(n - 1), "a")

ac_long_ok == Word(MaxWordLen)
ac_too_long == Word(MaxWordLen + 1)
ac_long_math == Append(Word(MaxWordLen), "=")

\* lines that look like code or like an explanation
cd_slashes == <<"/", "/", " ", "c", " ", "1">>
cd_comment == <<"/", "*", " ", "2", " ", "*", "/">>
cd_def == <<"d", "e", "f", " ", "f", "(", "x", ")", " ", "=", " ", "2">>
cd_import == <<"i", "m", "p", "o", "r", "t", " ", "5", " ", "+", " ", "3">>
cd_function == <<"f", "u", "n", "c", "t", "i", "o", "n", " ", "3", " ", "+", " ", "4">>
cd_print == <<"p", "r", "i", "n", "t", "(", "3", " ", "+", " ", "4", ")">>
cd_Function == <<"F", "u", "n", "c", "t", "i", "o", "n", " ", "3", " ", "+", " ", "4", " ", "=">>
ex_example == <<"E", "x", "a", "m", "p", "l", "e", " ", "1", ":", " ", "2", " ", "+", " ", "2", " ", "=">>
ex_note == <<"N", "o", "t", "e", ":", " ", "1", " ", "+", " ", "1", " ", "=">>
ex_NOTE == <<"N", "O", "T", "E", ":", " ", "1", " ", "+", " ", "1", " ", "=">>
ex_hint == <<"h", "i", "n", "t", ":", " ", "t", "r", "y", " ", "2", " ", "+", " ", "2">>
ex_Hint == <<"H", "i", "n", "t", ":", " ", "x">>
ex_notes == <<"N", "o", "t", "e", "s", " ", "o", "n", " ", "3", " ", "+", " ", "4">>
cw_print == <<"y", " ", "=", " ", "p", "r", "i", "n", "t", "(", "3", ")">>
cw_return == <<"x", " ", "=", " ", "5", " ", "r", "e", "t", "u", "r", "n", " ", "x">>
cw_function == <<"f", " ", "=", " ", "f", "u", "n", "c", "t", "i", "o", "n", "(", "x", ")">>
cw_Import == <<"2", " ", "+", " ", "I", "m", "p", "o", "r", "t", " ", "3">>
cw_DEF == <<"a", "b", "c", " ", "D", "E", "F", " ", "5">>

\* lines whose leading number belongs to the problem
nm_decimal == <<"3", ".", "5", " ", "+", " ", "2", " ", "=">>
nm_ratio == <<"3", ":", "4", " ", "=", " ", "x", ":", "8">>
nm_operand == <<"(", "3", ")", " ", "+", " ", "4", " ", "=">>

CoreLines == {ln_mul, ln_add, ln_note, ln_hash, ln_blank}

SpecialLines ==
    { mk_paren, mk_parens, mk_problem, mk_PROBLEM, mk_problem_lc, mk_two_digit,
      mk_short_rest, mk_note_rest, mk_problem_rest, mk_only, mk_padded,
      ac_x, ac_5, ac_12, ac_ab, ac_abcd, ac_hello, ac_caret, ac_square, ac_div,
      ac_slash, ac_open, ac_close, ac_minus, ac_equals, ac_plus, ac_times,
      ac_long_ok, ac_too_long, ac_long_math,
      cd_slashes, cd_comment, cd_def, cd_import, cd_function, cd_print, cd_Function,
      ex_example, ex_note, ex_NOTE, ex_hint, ex_Hint, ex_notes,
      cw_print, cw_return, cw_function, cw_Import, cw_DEF,
      nm_decimal, nm_ratio, nm_operand }

\* every sequence of at most n core lines
RECURSIVE CoreSeqs(_)
CoreSeqs(n) ==
    IF n = 0 THEN {<<>>}
    ELSE CoreSeqs(n - 1) \cup {Append(s, l) : s \in {t \in CoreSeqs(n - 1) : Len(t) = n - 1}, l \in CoreLines}

\* the replies the API may give: the core lines combined freely, the reply made of
\* a note, a comment and an empty line, and each special line alone, before a
\* valid line and between two valid lines
Replies ==
    {Join(s) : s \in CoreSeqs(MaxLines)}
      \cup {Join(<<ln_note, ln_hash, ln_blank>>)}
      \cup SpecialLines
      \cup {Join(<<l, ln_add>>) : l \in SpecialLines}
      \cup {Join(<<ln_mul, l, ln_add>>) : l \in SpecialLines}

(***************************************************************************)
(* Requests: the level and the topic of a call.                            *)
(***************************************************************************)
tp_multiplication == <<"M", "u", "l", "t", "i", "p", "l", "i", "c", "a", "t", "i", "o", "n", " ", "t", "a", "b", "l", "e", "s", " ", "(", "1", "-", "1", "0", ")">>
tp_addition == <<"A", "d", "d", "i", "t", "i", "o", "n">>
tp_subtraction == <<"S", "u", "b", "t", "r", "a", "c", "t", "i", "o", "n", " ", "w", "i", "t", "h", " ", "b", "o", "r", "r", "o", "w", "i", "n", "g">>
tp_fractions == <<"F", "r", "a", "c", "t", "i", "o", "n", "s">>
tp_equations == <<"L", "i", "n", "e", "a", "r", " ", "e", "q", "u", "a", "t", "i", "o", "n", "s">>
tp_graphs == <<"G", "r", "a", "p", "h", "s">>

Requests ==
    { <<"B", tp_multiplication>>, <<"A", tp_addition>>, <<"C", tp_subtraction>>,
      <<"E", tp_fractions>>, <<"H", tp_equations>>, <<"L", tp_graphs>> }

(***************************************************************************)
(* _generate_fallback_problems.  random is a pseudo-random generator: a    *)
(* hidden state seeded from the operating system when the module is loaded *)
(* and advanced by every draw.                                             *)
(***************************************************************************)
\* the state of the generator after k draws from state r
Advance(r, k) == (r + k) % RngPeriod

\* random.randint(lo, hi) drawn in state r
Randint(lo, hi, r) == lo + (r % (hi - lo + 1))

t_multiplication == <<"m", "u", "l", "t", "i", "p", "l", "i", "c", "a", "t", "i", "o", "n">>
t_addition == <<"a", "d", "d", "i", "t", "i", "o", "n">>
t_subtraction == <<"s", "u", "b", "t", "r", "a", "c", "t", "i", "o", "n">>
t_fraction == <<"f", "r", "a", "c", "t", "i", "o", "n">>
t_equation == <<"e", "q", "u", "a", "t", "i", "o", "n">>

\* which branch of the loop body the level and the topic select
FallbackBranch(lv, tp) ==
    LET topic_lower == Lower(tp)
    IN  IF Contains(topic_lower, t_multiplication) /\ lv = "B" THEN "times_table"
        ELSE IF Contains(topic_lower, t_addition) \/ lv = "A" THEN "addition"
        ELSE IF Contains(topic_lower, t_subtraction) THEN "subtraction"
        ELSE IF Contains(topic_lower, t_fraction) \/ lv \in {"E", "F"} THEN "fraction"
        ELSE IF Contains(topic_lower, t_equation) \/ lv \in {"G", "H", "I", "J", "K"} THEN "equation"
        ELSE "generic"

\* the number of random.randint calls of one iteration
FallbackDraws(lv, tp) ==
    CASE FallbackBranch(lv, tp) = "fraction" -> 4
      [] FallbackBranch(lv, tp) = "equation" -> 3
      [] OTHER -> 2

\* the problem one iteration appends, the generator being in state r
FallbackProblem(lv, tp, r) ==
    LET br == FallbackBranch(lv, tp)
    IN  CASE br = "times_table" ->
               IntToStr(Randint(2, 9, r)) \o <<" ", "×", " ">>
                 \o IntToStr(Randint(2, 9, Advance(r, 1))) \o <<" ", "=">>
          [] br = "addition" ->
               IntToStr(Randint(1, 15, r)) \o <<" ", "+", " ">>
                 \o IntToStr(Randint(1, 15, Advance(r, 1))) \o <<" ", "=">>
          [] br = "subtraction" ->
               LET a == Randint(10, 20, r)
               IN  IntToStr(a) \o <<" ", "-", " ">>
                     \o IntToStr(Randint(1, a - 1, Advance(r, 1))) \o <<" ", "=">>
          [] br = "fraction" ->
               IntToStr(Randint(1, 9, r)) \o <<"/">> \o IntToStr(Randint(2, 9, Advance(r, 1)))
                 \o <<" ", "+", " ">>
                 \o IntToStr(Randint(1, 9, Advance(r, 2))) \o <<"/">>
                 \o IntToStr(Randint(2, 9, Advance(r, 3))) \o <<" ", "=">>
          [] br = "equation" ->
               IntToStr(Randint(1, 9, r)) \o <<"x", " ", "+", " ">>
                 \o IntToStr(Randint(1, 9, Advance(r, 1))) \o <<" ", "=", " ">>
                 \o IntToStr(Randint(5, 20, Advance(r, 2)))
          [] OTHER ->
               IntToStr(Randint(2, 10, r)) \o <<" ", "×", " ">>
                 \o IntToStr(Randint(2, 10, Advance(r, 1))) \o <<" ", "=">>

(***************************************************************************)
(* The two passes as a whole, and the length reconciliation.               *)
(***************************************************************************)
\* the list valid_problems that lines 102-145 build from the content of a reply
ValidLines(content) ==
    LET ls == Split(Strip(content))
        RECURSIVE FirstPass(_)
        FirstPass(i) == IF i > Len(ls) THEN <<>> ELSE CleanLine(ls[i]) \o FirstPass(i + 1)
    IN  SelectSeq(FirstPass(1), IsValidProblem)

\* the elif arm missing: too few problems are returned as they are
Branch_PadSkipped(valid, n) ==
    IF Len(valid) > 0 THEN "first_n" ELSE "fallback"

\* an empty list taken for a good one: no fallback
Branch_EmptyIsEnough(valid, n) ==
    IF Len(valid) >= n \/ Len(valid) = 0 THEN "first_n" ELSE "pad"

\* too few problems sent to the fallback generator instead of being padded
Branch_FallbackWhenShort(valid, n) ==
    IF Len(valid) >= n THEN "first_n" ELSE "fallback"

\* which arm of "if len(valid_problems) >= num_problems / elif len(valid_problems) > 0 / else"
Branch(valid, n) ==
    IF Len(valid) >= n THEN "first_n"
    ELSE IF Len(valid) > 0 THEN "pad"
    ELSE "fallback"

\* the list returned whole, without the slice
FirstN_NoSlice(valid, n) == valid

\* the slice valid_problems[:num_problems], for num_problems >= 0
FirstN(valid, n) == SubSeq(valid, 1, Min(n, Len(valid)))

\* the list extended with its last elements instead of its first
PadExtend_FromTail(valid, n) ==
    valid \o SubSeq(valid, Len(valid) - Min(n - Len(valid), Len(valid)) + 1, Len(valid))

\* valid_problems.extend(valid_problems[:num_problems - len(valid_problems)])
PadExtend(valid, n) == valid \o FirstN(valid, n - Len(valid))

\* the except clause raising the exception again to the caller
ExceptTarget_Reraise == "raised"

\* where the except clause of generate_problems ends: it returns the fallback problems
ExceptTarget == "fallback"

\* the return statements of generate_problems, by their source line
RetFirstN == 151
RetPadded == 156
RetNoValid == 160
RetExcept == 215

(***************************************************************************)
(* Layout: worksheet_generator.py and latex_generator.py.                  *)
(* A length is a number of hundredths of an inch, a font size a number of  *)
(* points.  A problem is named by its place in the generated list.         *)
(***************************************************************************)
MaxCount == 14

\* the levels of kumon_levels.json and one identifier that is none of them
Levels == {"A", "B", "C", "D", "E", "F", "G", "H", "I", "J", "K", "L", "M", "N", "O", "Z"}

\* the list of line 199 (ReportLab) and of line 258 (LaTeX)
AdvancedLevels == {"G", "H", "I", "J", "K", "L", "M", "N", "O"}

IsAdvancedLevel_FromH(lv) == lv \in (AdvancedLevels \ {"G"})

IsAdvancedLevel(lv) == lv \in AdvancedLevels

\* values of a parsed JSON document
Num(n) == [kind |-> "num", num |-> n]
Bool(b) == [kind |-> "bool", num |-> IF b THEN 1 ELSE 0]
Bogus == [kind |-> "str", num |-> 0]       \* a non-empty string, 'bogus'
NoValue == [kind |-> "None", num |-> 0]    \* Python's None

\* bool(v)
Truthy(v) ==
    CASE v.kind = "num" -> v.num # 0
      [] v.kind = "bool" -> v.num = 1
      [] v.kind = "str" -> TRUE
      [] OTHER -> FALSE

\* isinstance(v, (int, float))
IsNumber(v) == v.kind \in {"num", "bool"}

\* layout_spec=None
None == [None |-> TRUE]

\* what data.get gives for a key that is absent or null, among strings
Missing == "None"

LayoutFields == {"use_two_columns", "font_size", "spacing_between_problems"}

\* the dictionaries the layout suggestion may hold: every field absent or present,
\* a font size of 12 or 'bogus', a spacing of 0.5, -0.5 or 'bogus'
LayoutDicts ==
    { d \in UNION { [fs -> {Num(12), Num(50), Num(-50), Bogus, Bool(TRUE), Bool(FALSE)}]
                      : fs \in SUBSET LayoutFields } :
        /\ "use_two_columns" \in DOMAIN d => d["use_two_columns"].kind = "bool"
        /\ "font_size" \in DOMAIN d => d["font_size"] \in {Num(12), Bogus}
        /\ "spacing_between_problems" \in DOMAIN d
              => d["spacing_between_problems"] \in {Num(50), Num(-50), Bogus} }

\* "if layout_spec": None and the empty dictionary are false
SpecGiven(ls) == ls # None /\ DOMAIN ls # {}

\* dict.get(key, default)
Get(d, key, default) == IF key \in DOMAIN d THEN d[key] ELSE default

FontAdvanced == 10
FontBasic == 11
SpacingAdvanced == 40
SpacingBasic == 60

\* "10 if is_advanced_level else 11", "0.4 if is_advanced_level else 0.6"
LevelFont(lv) == IF IsAdvancedLevel(lv) THEN FontAdvanced ELSE FontBasic
LevelSpacing(lv) == IF IsAdvancedLevel(lv) THEN SpacingAdvanced ELSE SpacingBasic

\* the defaults of the three layout_spec.get calls, lines 194-196
GetDefaultTwoColumns == Bool(FALSE)
GetDefaultFont == Num(11)
GetDefaultSpacing == Num(60)

\* lines 192-202: the locals use_two_columns, problem_font_size, problem_spacing
DecidedTwoColumns(lv, ls) ==
    IF SpecGiven(ls) THEN Get(ls, "use_two_columns", GetDefaultTwoColumns)
    ELSE Bool(IsAdvancedLevel(lv))

DecidedFont(lv, ls) ==
    IF SpecGiven(ls) THEN Get(ls, "font_size", GetDefaultFont) ELSE Num(LevelFont(lv))

DecidedSpacing(lv, ls) ==
    IF SpecGiven(ls) THEN Get(ls, "spacing_between_problems", GetDefaultSpacing)
    ELSE Num(LevelSpacing(lv))

\* "x if layout_spec else None", lines 230-231 and 243-244
PassedOn(v, ls) == IF SpecGiven(ls) THEN v ELSE NoValue

\* the fallback dictionary of LayoutGenerator.generate_layout_spec, lines 108-115
MinCountSuggested == 6

SuggestedDefaults(lv, n) ==
    [font_size |-> Num(LevelFont(lv)),
     spacing_between_problems |-> Num(LevelSpacing(lv)),
     use_two_columns |-> Bool(IsAdvancedLevel(lv) /\ n > MinCountSuggested)]

\* problems = <<1, ..., n>>
Numbered(n) == [i \in 1..n |-> i]

\* Python's xs[:k] and xs[k:] for 0 <= k
Take(xs, k) == SubSeq(xs, 1, Min(k, Len(xs)))
Drop(xs, k) == SubSeq(xs, Min(k, Len(xs)) + 1, Len(xs))

\* "mid_point = len(problems) // 2": line 217, and line 264 of the LaTeX renderer
MidPoint_RoundUp(n) == (n + 1) \div 2

MidPoint(n) == n \div 2

\* "mid = (len(problems) + 1) // 2": line 395, and line 478 of the LaTeX renderer
ColumnMid_RoundDown(n) == n \div 2

ColumnMid(n) == (n + 1) \div 2

\* the styles 'Problem' and 'ProblemAdvanced' of setup_styles, lines 135-151
StyleProblemFont == 14
StyleAdvancedFont == 13

\* lines 378-391: the paragraph style.  "int(problem_font_size * 1.2)" raises
\* TypeError for a string.
StyleRaises(font) == Truthy(font) /\ ~IsNumber(font)

StyleFont(font, two) ==
    IF Truthy(font) THEN font.num
    ELSE IF two THEN StyleAdvancedFont ELSE StyleProblemFont

\* line 393: "use_two_columns and len(problems) > 3"
MinTwoColumnCount == 3

InTwoColumns_FromThree(two, n) == two /\ n >= MinTwoColumnCount

InTwoColumns_CountOnly(two, n) == n > MinTwoColumnCount

InTwoColumns(two, n) == two /\ n > MinTwoColumnCount

\* the cells of one column: _format_problem(problems[i], first + i), i from 0
Cells(ps, first) ==
    [i \in 1..Len(ps) |-> [number |-> first + (i - 1), problem |-> ps[i]]]

\* line 419: the first number of the right column
FirstRightNumber_Restart(start_number, left_len) == start_number

FirstRightNumber(start_number, left_len) == start_number + left_len

\* line 242: start_number of the back page
BackStartNumber(front_len) == front_len + 1

\* the default spacings of lines 404 and 437, the padding of line 432
TwoColumnSpacing == 40
SingleSpacingAdvanced == 40
SingleSpacingBasic == 60
TableBottomPadding == 40

\* lines 404 and 437-438: the local "spacing", a string being kept as it is
SectionSpacing(two, n, spacing) ==
    IF Truthy(spacing) THEN spacing
    ELSE IF InTwoColumns(two, n) THEN Num(TwoColumnSpacing)
    ELSE Num(IF two THEN SingleSpacingAdvanced ELSE SingleSpacingBasic)

\* _create_problems_section raises TypeError: int of a string times 1.2 (line 387),
\* a string times inch (line 404)
SectionRaises(ps, two, font, spacing) ==
    \/ StyleRaises(font)
    \/ InTwoColumns(two, Len(ps)) /\ Truthy(spacing) /\ ~IsNumber(spacing)

\* _create_problems_section, lines 372-448: what the section puts on its page.
\* "gap" is what separates two problems: the Spacer of line 446, or the bottom
\* padding of the table, which does not use "spacing".
CreateProblemsSection(ps, two, start_number, font, spacing) ==
    LET n == Len(ps)
        mid == ColumnMid(n)
        left_problems == Take(ps, mid)
        right_problems == Drop(ps, mid)
        sp == SectionSpacing(two, n, spacing)
    IN  IF InTwoColumns(two, n)
        THEN [columns |-> 2,
              font |-> StyleFont(font, two),
              spacing |-> sp,
              gap |-> Num(TableBottomPadding),
              left |-> Cells(left_problems, start_number),
              right |-> Cells(right_problems,
                              FirstRightNumber(start_number, Len(left_problems)))]
        ELSE [columns |-> 1,
              font |-> StyleFont(font, two),
              spacing |-> sp,
              gap |-> sp,
              left |-> Cells(ps, start_number),
              right |-> <<>>]

\* LaTeX: _generate_single_column_problems, lines 449-474.  The enumerate
\* environment is opened without "start=", so its items are numbered from 1;
\* problem_num is computed and not used.  "font" is font_size, which an item
\* holding an operator exceeds by one point.
GenerateSingleColumnProblems(ps, font_size, spacing, start_num) ==
    [columns |-> 1,
     font |-> font_size,
     spacing |-> Num(spacing),
     gap |-> Num(spacing),
     left |-> Cells(ps, 1),
     right |-> <<>>]

\* LaTeX: _generate_two_column_problems, lines 476-530: two enumerate environments,
\* "start=start_num" and "start=start_num + len(left_problems)"
GenerateTwoColumnProblems(ps, font_size, spacing, start_num) ==
    LET mid == ColumnMid(Len(ps))
        left_problems == Take(ps, mid)
        right_problems == Drop(ps, mid)
    IN  [columns |-> 2,
         font |-> font_size,
         spacing |-> Num(spacing),
         gap |-> Num(spacing),
         left |-> Cells(left_problems, start_num),
         right |-> Cells(right_problems, start_num + Len(left_problems))]

\* lines 401-404 and 429-432 of _generate_latex_content
LatexSection(ps, two, font_size, spacing, start_num) ==
    IF two THEN GenerateTwoColumnProblems(ps, font_size, spacing, start_num)
    ELSE GenerateSingleColumnProblems(ps, font_size, spacing, start_num)

\* the cells of a page in reading order, the problems and the numbers they show
PageCells(section) == section.left \o section.right
CellProblems(cells) == [i \in 1..Len(cells) |-> cells[i].problem]
CellNumbers(cells) == [i \in 1..Len(cells) |-> cells[i].number]

\* WorksheetGenerator.generate_pdf as one step, lines 191-249: the two sections of
\* the story when it returns
GeneratePdfPages(lv, ps, ls) ==
    LET two == Truthy(DecidedTwoColumns(lv, ls))
        font == PassedOn(DecidedFont(lv, ls), ls)
        spacing == PassedOn(DecidedSpacing(lv, ls), ls)
        front == Take(ps, MidPoint(Len(ps)))
        back == Drop(ps, MidPoint(Len(ps)))
    IN  <<CreateProblemsSection(front, two, 1, font, spacing),
          CreateProblemsSection(back, two, BackStartNumber(Len(front)), font, spacing)>>

\* one of its two sections raises TypeError
GeneratePdfRaises(lv, ps, ls) ==
    LET two == Truthy(DecidedTwoColumns(lv, ls))
        font == PassedOn(DecidedFont(lv, ls), ls)
        spacing == PassedOn(DecidedSpacing(lv, ls), ls)
    IN  \/ SectionRaises(Take(ps, MidPoint(Len(ps))), two, font, spacing)
        \/ SectionRaises(Drop(ps, MidPoint(Len(ps))), two, font, spacing)

\* a section raises, or doc.build is given a Spacer whose height is a string
GeneratePdfMayRaise(lv, ps, ls) ==
    \/ GeneratePdfRaises(lv, ps, ls)
    \/ \E k \in 1..2 : LET section == GeneratePdfPages(lv, ps, ls)[k]
                        IN  Len(section.left) > 0 /\ ~IsNumber(section.gap)

(***************************************************************************)
(* LaTeX text: escape_latex and format_math of latex_generator.py.         *)
(***************************************************************************)
\* [a-zA-Z]
IsLetter(c) == \E i \in 1..26 : Upper[i] = c \/ LowerLetters[i] = c

\* the regex class \w on the characters of the problems
IsWordChar(c) == IsLetter(c) \/ c \in Digit \/ c \in {"_", "²", "³"}

\* the characters U+2264, U+2265 and U+2260, each one place of a text
ch_leq == "<="
ch_geq == ">="
ch_neq == "/="

\* the texts the two functions insert
tx_times == <<"\\", "t", "i", "m", "e", "s">>
tx_div == <<"\\", "d", "i", "v">>
tx_leq == <<"\\", "l", "e", "q">>
tx_geq == <<"\\", "g", "e", "q">>
tx_pm == <<"\\", "p", "m">>
tx_neq == <<"\\", "n", "e", "q">>
tx_frac == <<"\\", "f", "r", "a", "c">>
tx_sqrt == <<"\\", "s", "q", "r", "t">>
tx_textbackslash == <<"\\", "t", "e", "x", "t", "b", "a", "c", "k", "s", "l", "a", "s", "h", "{", "}">>
tx_textasciitilde == <<"\\", "t", "e", "x", "t", "a", "s", "c", "i", "i", "t", "i", "l", "d", "e", "{", "}">>

\* str.replace(c, r) for a single character c
RECURSIVE Replace(_, _, _)
Replace(s, c, r) ==
    IF s = <<>> THEN <<>>
    ELSE (IF Head(s) = c THEN r ELSE <<Head(s)>>) \o Replace(Tail(s), c, r)

\* str.split(c): always at least one piece
RECURSIVE SplitOn(_, _)
SplitOn(s, c) ==
    IF \A i \in 1..Len(s) : s[i] # c
    THEN <<s>>
    ELSE LET at == CHOOSE i \in 1..Len(s) : s[i] = c /\ \A j \in 1..(i - 1) : s[j] # c
         IN  <<SubSeq(s, 1, at - 1)>> \o SplitOn(SubSeq(s, at + 1, Len(s)), c)

\* c.join(parts)
RECURSIVE JoinOn(_, _)
JoinOn(parts, c) ==
    IF parts = <<>> THEN <<>>
    ELSE IF Len(parts) = 1 THEN parts[1]
    ELSE parts[1] \o <<c>> \o JoinOn(Tail(parts), c)

\* lines 51-59: the nine replacements in their order; the braces of
\* \textbackslash{} are escaped by the two that follow it
EscapePart(part) ==
    LET p1 == Replace(part, "\\", tx_textbackslash)
        p2 == Replace(p1, "{", <<"\\", "{">>)
        p3 == Replace(p2, "}", <<"\\", "}">>)
        p4 == Replace(p3, "&", <<"\\", "&">>)
        p5 == Replace(p4, "%", <<"\\", "%">>)
        p6 == Replace(p5, "$", <<"\\", "$">>)
        p7 == Replace(p6, "#", <<"\\", "#">>)
        p8 == Replace(p7, "_", <<"\\", "_">>)
    IN  Replace(p8, "~", tx_textasciitilde)

\* escape_latex, lines 41-61: the parts at even 0-based places are escaped
EscapeLatex(text) ==
    IF text = <<>> THEN <<>>
    ELSE LET parts == SplitOn(text, "$")
         IN  JoinOn([i \in 1..Len(parts) |->
                        IF (i - 1) % 2 = 0 THEN EscapePart(parts[i]) ELSE parts[i]], "$")

\* the first index from i on that holds c, Len(s) + 1 if none
IndexFrom(s, c, i) ==
    IF \E j \in i..Len(s) : s[j] = c
    THEN CHOOSE j \in i..Len(s) : s[j] = c /\ \A k \in i..(j - 1) : s[k] # c
    ELSE Len(s) + 1

At(s, i) == IF i \in 1..Len(s) THEN s[i] ELSE ""

\* the regular expressions of format_math, lines 80-101, by name
Patterns == {"power", "squared", "cubed", "paren_fraction", "fraction", "sqrt",
             "complex_fraction"}

\* a match of the pattern that starts at index i: the index after it, 0 if none
MatchEnd(pat, s, i) ==
    CASE pat = "power" ->
           IF IsLetter(At(s, i)) /\ At(s, i + 1) = "^" /\ At(s, i + 2) \in Digit
           THEN DigitsEnd(s, i + 2) ELSE 0
      [] pat = "squared" -> IF IsLetter(At(s, i)) /\ At(s, i + 1) = "²" THEN i + 2 ELSE 0
      [] pat = "cubed" -> IF IsLetter(At(s, i)) /\ At(s, i + 1) = "³" THEN i + 2 ELSE 0
      [] pat = "paren_fraction" ->
           LET d1 == DigitsEnd(s, i + 1)
               d2 == DigitsEnd(s, d1 + 1)
           IN  IF /\ At(s, i) = "(" /\ d1 > i + 1
                  /\ At(s, d1) = "/" /\ d2 > d1 + 1
                  /\ At(s, d2) = ")"
               THEN d2 + 1 ELSE 0
      [] pat = "fraction" ->
           LET d1 == DigitsEnd(s, i)
               d2 == DigitsEnd(s, d1 + 1)
           IN  IF /\ At(s, i) \in Digit /\ ~IsWordChar(At(s, i - 1))
                  /\ At(s, d1) = "/" /\ d2 > d1 + 1
                  /\ ~IsWordChar(At(s, d2))
               THEN d2 ELSE 0
      [] pat = "sqrt" ->
           LET close == IndexFrom(s, ")", i + 5)
           IN  IF /\ SubSeq(s, i, Min(i + 4, Len(s))) = <<"s", "q", "r", "t", "(">>
                  /\ close > i + 5 /\ close <= Len(s)
               THEN close + 1 ELSE 0
      [] pat = "complex_fraction" ->
           LET close == IndexFrom(s, ")", i + 1)
               slash == SpaceEnd(s, close + 1)
               den == SpaceEnd(s, slash + 1)
           IN  IF /\ At(s, i) = "(" /\ close > i + 1 /\ close <= Len(s)
                  /\ At(s, slash) = "/" /\ At(s, den) \in Digit
               THEN DigitsEnd(s, den) ELSE 0

\* the replacement of the match s[i..e-1]
Rewritten(pat, s, i, e) ==
    CASE pat = "power" -> <<s[i], "^", "{">> \o SubSeq(s, i + 2, e - 1) \o <<"}">>
      [] pat = "squared" -> <<s[i], "^", "{", "2", "}">>
      [] pat = "cubed" -> <<s[i], "^", "{", "3", "}">>
      [] pat = "paren_fraction" ->
           LET d1 == DigitsEnd(s, i + 1)
           IN  <<"(", "$">> \o tx_frac \o <<"{">> \o SubSeq(s, i + 1, d1 - 1) \o <<"}", "{">>
                 \o SubSeq(s, d1 + 1, e - 2) \o <<"}", "$", ")">>
      [] pat = "fraction" ->
           LET d1 == DigitsEnd(s, i)
           IN  <<"$">> \o tx_frac \o <<"{">> \o SubSeq(s, i, d1 - 1) \o <<"}", "{">>
                 \o SubSeq(s, d1 + 1, e - 1) \o <<"}", "$">>
      [] pat = "sqrt" ->
           <<"$">> \o tx_sqrt \o <<"{">> \o SubSeq(s, i + 5, e - 2) \o <<"}", "$">>
      [] pat = "complex_fraction" ->
           LET close == IndexFrom(s, ")", i + 1)
               den == SpaceEnd(s, SpaceEnd(s, close + 1) + 1)
           IN  <<"$">> \o tx_frac \o <<"{">> \o SubSeq(s, i + 1, close - 1) \o <<"}", "{">>
                 \o SubSeq(s, den, e - 1) \o <<"}", "$">>

\* re.sub: the matches from left to right, none overlapping another
RECURSIVE ReSubFrom(_, _, _)
ReSubFrom(pat, s, i) ==
    IF i > Len(s) THEN <<>>
    ELSE LET e == MatchEnd(pat, s, i)
         IN  IF e > 0 THEN Rewritten(pat, s, i, e) \o ReSubFrom(pat, s, e)
             ELSE <<s[i]>> \o ReSubFrom(pat, s, i + 1)

ReSub(pat, s) == ReSubFrom(pat, s, 1)

\* line 105: the words of str.split() that are alphabetic and longer than 2
WordCount(s) ==
    Cardinality({ i \in 1..Len(s) :
        /\ s[i] \notin Whitespace
        /\ At(s, i - 1) \in Whitespace \cup {""}
        /\ LET e == IF \E j \in i..Len(s) : s[j] \in Whitespace
                    THEN CHOOSE j \in i..Len(s) :
                             s[j] \in Whitespace /\ \A k \in i..(j - 1) : s[k] \notin Whitespace
                    ELSE Len(s) + 1
           IN  e - i > 2 /\ \A k \in i..(e - 1) : IsLetter(s[k]) })

MaxWords == 3

HasAny(s, cs) == \E i \in 1..Len(s) : s[i] \in cs

\* line 114: the three searches
LooksLikeEquation(s) ==
    \/ HasAny(s, {"=", "<", ">", ch_leq, ch_geq})
    \/ HasAny(s, {"+", "-", "×", "÷", "/"})
    \/ \E i \in 1..Len(s) : s[i] \in Digit /\ At(s, SpaceEnd(s, DigitsEnd(s, i))) \in {"×", "÷"}

\* lines 72-77
Symbols(s) ==
    Replace(Replace(Replace(Replace(Replace(Replace(s,
        "×", <<"$">> \o tx_times \o <<"$">>), "÷", <<"$">> \o tx_div \o <<"$">>),
        ch_leq, <<"$">> \o tx_leq \o <<"$">>), ch_geq, <<"$">> \o tx_geq \o <<"$">>),
        "±", <<"$">> \o tx_pm \o <<"$">>), ch_neq, <<"$">> \o tx_neq \o <<"$">>)

\* format_math, lines 63-119
FormatMath(problem_text) ==
    IF problem_text = <<>> THEN <<>>
    ELSE LET has_math_mode == HasAny(problem_text, {"$"})
             t1 == ReSub("cubed", ReSub("squared", ReSub("power", Symbols(problem_text))))
             t2 == IF has_math_mode THEN t1 ELSE ReSub("fraction", ReSub("paren_fraction", t1))
             t3 == ReSub("complex_fraction", ReSub("sqrt", t2))
             word_count == WordCount(t3)
         IN  IF word_count > MaxWords THEN t3
             ELSE IF /\ ~has_math_mode
                     /\ LooksLikeEquation(t3)
                     /\ ~StartsWith(Strip(t3), <<"$">>)
                  THEN <<"$">> \o t3 \o <<"$">>
                  ELSE t3

(***************************************************************************)
(* State.                                                                  *)
(***************************************************************************)
VARIABLES
    level,              \* argument of generate_problems
    topic,              \* argument of generate_problems
    num_problems,       \* argument of generate_problems
    pc,                 \* position of the call
    api_result,         \* what the API call gave: "none", "content", "no_content", "error"
    reply,              \* response.choices[0].message.content
    problems_text,      \* local of generate_problems
    lines,              \* local of generate_problems
    idx,                \* position of the running for loop
    problems,           \* local of generate_problems: the first pass
    valid_problems,     \* local of generate_problems: the second pass
    fallback_problems,  \* the list built by _generate_fallback_problems
    rng,                \* state of the random module, -1 before it is seeded
    result,             \* the list generate_problems returned
    ret_line,           \* the return statement that produced result, 0 before
    run,                \* 1 for the first call, 2 for a second call on the same reply
    prev_result,        \* the list the first call returned
    renderer,           \* "reportlab" or "latex": whose generate_pdf runs, "none" if none
    pdf_problems,       \* argument problems of generate_pdf
    layout_spec,        \* argument layout_spec of generate_pdf
    pdf_pc,             \* position of generate_pdf
    use_two_columns,    \* local of generate_pdf
    problem_font_size,  \* local of generate_pdf
    problem_spacing,    \* local of generate_pdf
    mid_point,          \* local of generate_pdf
    front_problems,     \* local of generate_pdf
    back_problems,      \* local of generate_pdf
    story,              \* the sections put on the pages so far, front page first
    pdf_error,          \* the exception generate_pdf raised, "" if none
    route,              \* the handler serving the request, "none" if none
    req_level,          \* data.get('level')
    req_topic,          \* data.get('topic')
    req_num_problems,   \* data.get('num_problems', 10)
    can_produce,        \* the 2-up methods that produce the sheet when they are called
    reportlab_error,    \* what the ReportLab renderer raised in the handler, "" if nothing
    paths,              \* the renderers whose generate_pdf returned a path, in order
    route_pc,           \* position of the handler
    suggestion,         \* how layout_spec of generate_worksheet came about
    steps,              \* the collaborators called so far, in order
    status,             \* status of the response, 0 before it is sent
    error,              \* "error" of the response body, "" if none
    scenario,           \* who makes the two generate_pdf calls, "none" if nobody
    now,                \* the clock, in ticks
    call_level,         \* argument level of each of the two generate_pdf calls
    call_pc,            \* position of each of the two generate_pdf calls
    pdf_path,           \* the path each call computed
    disk,               \* the files of output_dir: path -> the call whose PDF it holds
    sent,               \* the call whose PDF each caller read back, 0 before
    generator,          \* whose _compile_latex runs: "worksheet", "print_layout", "none"
    toolchain,          \* what running each compiler on this machine ends in
    tex_dir_exists,     \* os.chdir(tex_dir) finds the directory
    started_in,         \* the working directory of the process when the call was made
    cwd,                \* the working directory of the process
    original_dir,       \* local of _compile_latex
    cc_pc,              \* position of _compile_latex
    ran,                \* the compilers subprocess.run was called for, in order
    pending,            \* the exit that is under way while the finally clause runs
    cc_error,           \* the exception _compile_latex raised, "" if none
    problem,            \* the problem text of one item of the enumerate environment
    formatted_problem,  \* local of the loop over the problems
    escaped_problem,    \* local of the loop over the problems
    tex_pc              \* position in the body of the loop

gen_vars == <<level, topic, num_problems, pc, api_result, reply, problems_text, lines, idx,
              problems, valid_problems, fallback_problems, rng, result, ret_line, run,
              prev_result>>

pdf_args == <<renderer, pdf_problems, layout_spec>>
pdf_decision == <<use_two_columns, problem_font_size, problem_spacing>>
pdf_pages == <<mid_point, front_problems, back_problems>>
pdf_vars == <<pdf_args, pdf_pc, pdf_decision, pdf_pages, story, pdf_error>>

\* what a request handler leaves alone of generate_pdf
pdf_inside == <<renderer, pdf_pc, pdf_decision, pdf_pages, pdf_error>>

route_request == <<route, req_level, req_topic, req_num_problems, can_produce>>
route_vars == <<route_request, route_pc, suggestion, steps, reportlab_error, paths, status,
               error>>

out_calls == <<scenario, call_level>>
out_vars == <<out_calls, now, call_pc, pdf_path, disk, sent>>

cc_machine == <<generator, toolchain, tex_dir_exists, started_in>>
cc_vars == <<cc_machine, cwd, original_dir, cc_pc, ran, pending, cc_error>>

tex_vars == <<problem, formatted_problem, escaped_problem, tex_pc>>

\* the output files, the LaTeX compilers and the LaTeX text of an item
sys_vars == <<out_vars, cc_vars, tex_vars>>

\* what generate_problems leaves alone
outside == <<pdf_vars, route_vars, sys_vars>>

vars == <<gen_vars, pdf_vars, route_vars, sys_vars>>

request == <<level, topic, num_problems>>
parse_locals == <<problems_text, lines, problems, valid_problems>>
calls == <<run, prev_result>>

\* generate_pdf is not running
PdfIdle ==
    /\ renderer = "none"
    /\ pdf_problems = <<>>
    /\ layout_spec = None
    /\ pdf_pc = "idle"
    /\ use_two_columns = NoValue
    /\ problem_font_size = NoValue
    /\ problem_spacing = NoValue
    /\ mid_point = 0
    /\ front_problems = <<>>
    /\ back_problems = <<>>
    /\ story = <<>>
    /\ pdf_error = ""

\* no request is being served
RouteIdle ==
    /\ route = "none"
    /\ req_level = Missing
    /\ req_topic = Missing
    /\ req_num_problems = 0
    /\ can_produce = {}
    /\ reportlab_error = ""
    /\ paths = <<>>
    /\ route_pc = "idle"
    /\ suggestion = "unset"
    /\ steps = <<>>
    /\ status = 0
    /\ error = ""

\* the empty path and the empty directory
NoPath == <<>>
NoFiles == <<>>

\* no PDF is being written
OutIdle ==
    /\ scenario = "none"
    /\ now = 0
    /\ call_level = <<>>
    /\ call_pc = <<>>
    /\ pdf_path = <<>>
    /\ disk = NoFiles
    /\ sent = <<>>

\* no LaTeX file is being compiled
CompileIdle ==
    /\ generator = "none"
    /\ toolchain = <<>>
    /\ tex_dir_exists = TRUE
    /\ started_in = ""
    /\ cwd = ""
    /\ original_dir = ""
    /\ cc_pc = "idle"
    /\ ran = <<>>
    /\ pending = ""
    /\ cc_error = ""

\* no item is being written
TexIdle ==
    /\ problem = <<>>
    /\ formatted_problem = <<>>
    /\ escaped_problem = <<>>
    /\ tex_pc = "idle"

SysIdle == OutIdle /\ CompileIdle /\ TexIdle

Init ==
    /\ \E rq \in Requests : level = rq[1] /\ topic = rq[2]
    /\ num_problems \in 0..MaxN
    /\ pc = "call_api"
    /\ api_result = "none"
    /\ reply = <<>>
    /\ problems_text = <<>>
    /\ lines = <<>>
    /\ idx = 0
    /\ problems = <<>>
    /\ valid_problems = <<>>
    /\ fallback_problems = <<>>
    /\ rng = -1
    /\ result = <<>>
    /\ ret_line = 0
    /\ run = 1
    /\ prev_result = <<>>
    /\ PdfIdle
    /\ RouteIdle
    /\ SysIdle

(***************************************************************************)
(* generate_problems, step by step.                                        *)
(***************************************************************************)
\* the API answers with a text: lines 86-102.  A second call on the same reply is
\* given the reply of the first.
ApiReturns ==
    /\ pc = "call_api"
    /\ \E r \in (IF run = 1 THEN Replies ELSE {reply}) :
          /\ reply' = r
          /\ problems_text' = Strip(r)
          /\ lines' = Split(Strip(r))
    /\ api_result' = "content"
    /\ idx' = 1
    /\ pc' = "parse"
    /\ UNCHANGED <<request, problems, valid_problems, fallback_problems, rng, result,
                   ret_line, calls>>
    /\ UNCHANGED outside

\* the API call raises, or the reply holds no content and .strip() raises: line 162
ApiFails ==
    /\ pc = "call_api"
    /\ run = 1
    /\ api_result' \in {"error", "no_content"}
    /\ pc' = "except"
    /\ UNCHANGED <<request, reply, parse_locals, idx, fallback_problems, rng, result,
                   ret_line, calls>>
    /\ UNCHANGED outside

\* one iteration of "for line in lines": lines 104-133
ParseLine ==
    /\ pc = "parse"
    /\ idx <= Len(lines)
    /\ problems' = problems \o CleanLine(lines[idx])
    /\ IF idx < Len(lines)
       THEN idx' = idx + 1 /\ pc' = "parse"
       ELSE idx' = 1 /\ pc' = IF problems' = <<>> THEN "reconcile" ELSE "filter"
    /\ UNCHANGED <<request, api_result, reply, problems_text, lines, valid_problems,
                   fallback_problems, rng, result, ret_line, calls>>
    /\ UNCHANGED outside

\* one iteration of "for p in problems": lines 137-145
FilterProblem ==
    /\ pc = "filter"
    /\ idx <= Len(problems)
    /\ valid_problems' = IF IsValidProblem(problems[idx])
                         THEN Append(valid_problems, problems[idx])
                         ELSE valid_problems
    /\ IF idx < Len(problems)
       THEN idx' = idx + 1 /\ pc' = "filter"
       ELSE idx' = 0 /\ pc' = "reconcile"
    /\ UNCHANGED <<request, api_result, reply, problems_text, lines, problems,
                   fallback_problems, rng, result, ret_line, calls>>
    /\ UNCHANGED outside

\* the call of _generate_fallback_problems: "import random" seeds the generator the
\* first time, the list starts empty
EnterFallback(line) ==
    /\ pc' = "fallback"
    /\ ret_line' = line
    /\ idx' = 0
    /\ fallback_problems' = <<>>
    /\ \E seed \in 0..(RngPeriod - 1) : rng' = IF rng = -1 THEN seed ELSE rng

\* the if / elif / else of lines 150-160
Reconcile ==
    /\ pc = "reconcile"
    /\ LET arm == Branch(valid_problems, num_problems)
       IN  CASE arm = "first_n" ->
                  /\ result' = FirstN(valid_problems, num_problems)
                  /\ ret_line' = RetFirstN
                  /\ pc' = "done"
                  /\ UNCHANGED <<idx, fallback_problems, rng>>
             [] arm = "pad" ->
                  /\ pc' = "pad"
                  /\ UNCHANGED <<idx, fallback_problems, rng, result, ret_line>>
             [] OTHER ->
                  /\ EnterFallback(RetNoValid)
                  /\ UNCHANGED result
    /\ UNCHANGED <<request, api_result, reply, parse_locals, calls>>
    /\ UNCHANGED outside

\* one iteration of "while len(valid_problems) < num_problems": lines 154-155
PadStep ==
    /\ pc = "pad"
    /\ Len(valid_problems) < num_problems
    /\ valid_problems' = PadExtend(valid_problems, num_problems)
    /\ UNCHANGED <<request, pc, api_result, reply, problems_text, lines, idx, problems,
                   fallback_problems, rng, result, ret_line, calls>>
    /\ UNCHANGED outside

\* the loop is over: return valid_problems[:num_problems], line 156
ReturnPadded ==
    /\ pc = "pad"
    /\ Len(valid_problems) >= num_problems
    /\ result' = FirstN(valid_problems, num_problems)
    /\ ret_line' = RetPadded
    /\ pc' = "done"
    /\ UNCHANGED <<request, api_result, reply, parse_locals, idx, fallback_problems, rng,
                   calls>>
    /\ UNCHANGED outside

\* the except clause: lines 162-215
HandleException ==
    /\ pc = "except"
    /\ IF ExceptTarget = "fallback"
       THEN EnterFallback(RetExcept)
       ELSE pc' = ExceptTarget /\ UNCHANGED <<ret_line, idx, fallback_problems, rng>>
    /\ UNCHANGED <<request, api_result, reply, parse_locals, result, calls>>
    /\ UNCHANGED outside

\* one iteration of "for i in range(num_problems)": lines 269-294
FallbackStep ==
    /\ pc = "fallback"
    /\ idx < num_problems
    /\ fallback_problems' = Append(fallback_problems, FallbackProblem(level, topic, rng))
    /\ rng' = Advance(rng, FallbackDraws(level, topic))
    /\ idx' = idx + 1
    /\ UNCHANGED <<request, pc, api_result, reply, parse_locals, result, ret_line, calls>>
    /\ UNCHANGED outside

\* "return problems" inside the for loop: the list is returned after one problem
FallbackReturn_InLoop ==
    /\ pc = "fallback"
    /\ idx >= Min(1, num_problems)
    /\ result' = fallback_problems
    /\ pc' = "done"
    /\ UNCHANGED <<request, api_result, reply, parse_locals, idx, fallback_problems, rng,
                   ret_line, calls>>
    /\ UNCHANGED outside

\* "return problems" of _generate_fallback_problems, returned in turn by the caller
FallbackReturn ==
    /\ pc = "fallback"
    /\ idx >= num_problems
    /\ result' = fallback_problems
    /\ pc' = "done"
    /\ UNCHANGED <<request, api_result, reply, parse_locals, idx, fallback_problems, rng,
                   ret_line, calls>>
    /\ UNCHANGED outside

\* a second call with the same arguments, to which the API gives the same reply
Reinvoke ==
    /\ pc = "done"
    /\ run = 1
    /\ api_result = "content"
    /\ run' = 2
    /\ prev_result' = result
    /\ pc' = "call_api"
    /\ problems_text' = <<>>
    /\ lines' = <<>>
    /\ idx' = 0
    /\ problems' = <<>>
    /\ valid_problems' = <<>>
    /\ fallback_problems' = <<>>
    /\ result' = <<>>
    /\ ret_line' = 0
    /\ UNCHANGED <<request, api_result, reply, rng>>
    /\ UNCHANGED outside

Next ==
    \/ ApiReturns
    \/ ApiFails
    \/ ParseLine
    \/ FilterProblem
    \/ Reconcile
    \/ PadStep
    \/ ReturnPadded
    \/ HandleException
    \/ FallbackStep
    \/ FallbackReturn

Spec == Init /\ [][Next]_vars

\* two calls in a row on the same reply
NextTwice == Next \/ Reinvoke

SpecTwice == Init /\ [][NextTwice]_vars

(***************************************************************************)
(* generate_pdf of the two renderers, step by step.                        *)
(***************************************************************************)
\* generate_problems is not running
GenIdle ==
    /\ topic = tp_equations
    /\ num_problems = 0
    /\ pc = "idle"
    /\ api_result = "none"
    /\ reply = <<>>
    /\ problems_text = <<>>
    /\ lines = <<>>
    /\ idx = 0
    /\ problems = <<>>
    /\ valid_problems = <<>>
    /\ fallback_problems = <<>>
    /\ rng = -1
    /\ result = <<>>
    /\ ret_line = 0
    /\ run = 1
    /\ prev_result = <<>>

\* a call of generate_pdf.  The LaTeX renderer takes no layout_spec; the ReportLab
\* renderer is given none, a dictionary, or the fallback dictionary of the layout
\* generator.
InitPdf ==
    /\ GenIdle
    /\ RouteIdle
    /\ SysIdle
    /\ level \in Levels
    /\ renderer \in {"reportlab", "latex"}
    /\ \E n \in 0..MaxCount :
          /\ pdf_problems = Numbered(n)
          /\ layout_spec \in IF renderer = "reportlab"
                             THEN {None} \cup LayoutDicts \cup {SuggestedDefaults(level, n)}
                             ELSE {None}
    /\ pdf_pc = "decide"
    /\ use_two_columns = NoValue
    /\ problem_font_size = NoValue
    /\ problem_spacing = NoValue
    /\ mid_point = 0
    /\ front_problems = <<>>
    /\ back_problems = <<>>
    /\ story = <<>>
    /\ pdf_error = ""

\* ReportLab, lines 191-202
DecideLayout ==
    /\ pdf_pc = "decide"
    /\ renderer = "reportlab"
    /\ use_two_columns' = DecidedTwoColumns(level, layout_spec)
    /\ problem_font_size' = DecidedFont(level, layout_spec)
    /\ problem_spacing' = DecidedSpacing(level, layout_spec)
    /\ pdf_pc' = "split"
    /\ UNCHANGED <<gen_vars, route_vars, sys_vars, pdf_args, pdf_pages, story, pdf_error>>

\* LaTeX, lines 257-261
LatexDecideLayout ==
    /\ pdf_pc = "decide"
    /\ renderer = "latex"
    /\ use_two_columns' = Bool(IsAdvancedLevel(level))
    /\ problem_font_size' = Num(LevelFont(level))
    /\ problem_spacing' = Num(LevelSpacing(level))
    /\ pdf_pc' = "split"
    /\ UNCHANGED <<gen_vars, route_vars, sys_vars, pdf_args, pdf_pages, story, pdf_error>>

\* lines 217-219 of the ReportLab renderer, lines 264-266 of the LaTeX renderer
SplitPages ==
    /\ pdf_pc = "split"
    /\ mid_point' = MidPoint(Len(pdf_problems))
    /\ front_problems' = Take(pdf_problems, mid_point')
    /\ back_problems' = Drop(pdf_problems, mid_point')
    /\ pdf_pc' = "front"
    /\ UNCHANGED <<gen_vars, route_vars, sys_vars, pdf_args, pdf_decision, story, pdf_error>>

\* ReportLab, lines 225-232: the front page
FrontPage ==
    /\ pdf_pc = "front"
    /\ renderer = "reportlab"
    /\ LET two == Truthy(use_two_columns)
           font == PassedOn(problem_font_size, layout_spec)
           spacing == PassedOn(problem_spacing, layout_spec)
       IN  IF SectionRaises(front_problems, two, font, spacing)
           THEN pdf_pc' = "raised" /\ pdf_error' = "TypeError" /\ UNCHANGED story
           ELSE /\ story' = <<CreateProblemsSection(front_problems, two, 1, font, spacing)>>
                /\ pdf_pc' = "back"
                /\ UNCHANGED pdf_error
    /\ UNCHANGED <<gen_vars, route_vars, sys_vars, pdf_args, pdf_decision, pdf_pages>>

\* ReportLab, lines 234-245: the back page
BackPage ==
    /\ pdf_pc = "back"
    /\ LET two == Truthy(use_two_columns)
           font == PassedOn(problem_font_size, layout_spec)
           spacing == PassedOn(problem_spacing, layout_spec)
           start_number == BackStartNumber(Len(front_problems))
       IN  IF SectionRaises(back_problems, two, font, spacing)
           THEN pdf_pc' = "raised" /\ pdf_error' = "TypeError" /\ UNCHANGED story
           ELSE /\ story' = Append(story, CreateProblemsSection(back_problems, two,
                                                               start_number, font, spacing))
                /\ pdf_pc' = "build"
                /\ UNCHANGED pdf_error
    /\ UNCHANGED <<gen_vars, route_vars, sys_vars, pdf_args, pdf_decision, pdf_pages>>

\* a Spacer was given a string for its height
BadSpacer == \E k \in 1..Len(story) : Len(story[k].left) > 0 /\ ~IsNumber(story[k].gap)

\* ReportLab, lines 248-249: doc.build and the return.  What the library does with a
\* Spacer whose height is a string is not in this repository: either outcome.
BuildDoc ==
    /\ pdf_pc = "build"
    /\ \/ pdf_pc' = "returned" /\ UNCHANGED pdf_error
       \/ BadSpacer /\ pdf_pc' = "raised" /\ pdf_error' = "TypeError"
    /\ UNCHANGED <<gen_vars, route_vars, sys_vars, pdf_args, pdf_decision, pdf_pages, story>>

\* LaTeX, _generate_latex_content: lines 400-404 and 428-432
LatexContent ==
    /\ pdf_pc = "front"
    /\ renderer = "latex"
    /\ story' = <<LatexSection(front_problems, Truthy(use_two_columns),
                               problem_font_size.num, problem_spacing.num, 1),
                  LatexSection(back_problems, Truthy(use_two_columns),
                               problem_font_size.num, problem_spacing.num,
                               Len(front_problems) + 1)>>
    /\ pdf_pc' = "compile"
    /\ UNCHANGED <<gen_vars, route_vars, sys_vars, pdf_args, pdf_decision, pdf_pages, pdf_error>>

\* LaTeX, lines 281-294: the file is written and compiled; RuntimeError when the
\* compilation fails or leaves no PDF
LatexCompile ==
    /\ pdf_pc = "compile"
    /\ \/ pdf_pc' = "returned" /\ UNCHANGED pdf_error
       \/ pdf_pc' = "raised" /\ pdf_error' = "RuntimeError"
    /\ UNCHANGED <<gen_vars, route_vars, sys_vars, pdf_args, pdf_decision, pdf_pages, story>>

NextPdf ==
    \/ DecideLayout
    \/ LatexDecideLayout
    \/ SplitPages
    \/ FrontPage
    \/ BackPage
    \/ BuildDoc
    \/ LatexContent
    \/ LatexCompile

SpecPdf == InitPdf /\ [][NextPdf]_vars

(***************************************************************************)
(* The request handlers: generate_worksheet and generate_print_layout of   *)
(* app.py, handler.do_POST of api/generate.py.                             *)
(***************************************************************************)
Routes == {"generate", "print_layout", "serverless"}

\* the levels of a request: none, empty, one of kumon_levels.json, one that is not
RequestLevels == {Missing, "", "A", "H", "Z"}
RequestTopics == {Missing, "", "Linear equations"}
RequestCounts == {2, 7, 10}
KnownLevels == Levels \ {"Z"}

RequiredMessage == "Level and topic are required"

\* the three 2-up methods in the order generate_print_layout names them: lines 190,
\* 197 and 205 of app.py
TwoUpMethods == <<"pdf_2up_layout", "latex_print_layout", "print_layout">>

Not_NoneOnly(x) == x = Missing

\* "not x" for what data.get returned
Not(x) == x \in {Missing, ""}

\* the body of the request is a JSON object
InitRoute ==
    /\ GenIdle
    /\ PdfIdle
    /\ SysIdle
    /\ route \in Routes
    /\ req_level \in RequestLevels
    /\ req_topic \in RequestTopics
    /\ req_num_problems \in RequestCounts
    /\ reportlab_error = ""
    /\ paths = <<>>
    /\ can_produce \in IF route = "print_layout"
                       THEN SUBSET {TwoUpMethods[i] : i \in 1..Len(TwoUpMethods)}
                       ELSE {{}}
    /\ level = (IF req_level = Missing THEN "" ELSE req_level)
    /\ route_pc = "check"
    /\ suggestion = "unset"
    /\ steps = <<>>
    /\ status = 0
    /\ error = ""

\* the response is sent
Respond(code, message) ==
    /\ status' = code
    /\ error' = message
    /\ route_pc' = "done"

\* "if not level or not topic": app.py lines 53-54 and 124-125, do_POST lines 32-37
CheckRequest ==
    /\ route_pc = "check"
    /\ IF Not(req_level) \/ Not(req_topic)
       THEN Respond(400, RequiredMessage)
       ELSE route_pc' = "problems" /\ UNCHANGED <<status, error>>
    /\ UNCHANGED <<gen_vars, pdf_vars, sys_vars, route_request, reportlab_error, paths, suggestion, steps>>

\* ProblemGenerator() raises ValueError without an API key; generate_problems is
\* called once, twice for the print layout: app.py lines 58-63 and 129-134,
\* do_POST lines 40-41
GenerateProblems ==
    /\ route_pc = "problems"
    /\ \/ Respond(500, "ValueError") /\ UNCHANGED steps
       \/ /\ steps' = steps \o (IF route = "print_layout"
                                THEN <<"generate_problems", "generate_problems">>
                                ELSE <<"generate_problems">>)
          /\ route_pc' = CASE route = "generate" -> "layout"
                           [] route = "serverless" -> "reportlab"
                           [] OTHER -> "sheet1"
          /\ UNCHANGED <<status, error>>
    /\ UNCHANGED <<gen_vars, pdf_vars, sys_vars, route_request, reportlab_error, paths, suggestion>>

\* how the layout suggestion ended: LayoutGenerator() raised (app.py line 68);
\* generate_layout_spec caught an exception of the API call or of json.loads and
\* returned its fallback dictionary (lines 105-115); the reply parsed to a value
\* with no .get, so line 70 of app.py raised; the reply parsed to a dictionary
FailedSuggestions == {"init_raised", "fallback_dict", "not_dict"}

SuggestLayout_Propagates ==
    /\ route_pc = "layout"
    /\ \/ /\ suggestion' = "init_raised"
          /\ layout_spec' = None
          /\ route_pc' = "reportlab"
          /\ UNCHANGED <<steps, status, error>>
       \/ /\ steps' = Append(steps, "generate_layout_spec")
          /\ \/ /\ suggestion' = "fallback_dict"
                /\ layout_spec' = SuggestedDefaults(req_level, req_num_problems)
                /\ route_pc' = "reportlab"
                /\ UNCHANGED <<status, error>>
             \/ /\ suggestion' = "not_dict"
                /\ layout_spec' = None
                /\ Respond(500, "AttributeError")
             \/ /\ suggestion' = "dict"
                /\ layout_spec' \in LayoutDicts
                /\ route_pc' = "reportlab"
                /\ UNCHANGED <<status, error>>
    /\ UNCHANGED <<gen_vars, pdf_inside, pdf_problems, story, sys_vars, route_request,
                   reportlab_error, paths>>

\* app.py lines 66-73: the local layout_spec of generate_worksheet
SuggestLayout ==
    /\ route_pc = "layout"
    /\ \/ /\ suggestion' = "init_raised"
          /\ layout_spec' = None
          /\ UNCHANGED steps
       \/ /\ steps' = Append(steps, "generate_layout_spec")
          /\ \/ /\ suggestion' = "fallback_dict"
                /\ layout_spec' = SuggestedDefaults(req_level, req_num_problems)
             \/ /\ suggestion' = "not_dict"
                /\ layout_spec' = None
             \/ /\ suggestion' = "dict"
                /\ layout_spec' \in LayoutDicts
    /\ route_pc' = "reportlab"
    /\ UNCHANGED <<gen_vars, pdf_inside, pdf_problems, story, sys_vars, route_request,
                   reportlab_error, paths, status, error>>

ReportLabFails_NoFallback(name) ==
    /\ reportlab_error' = name
    /\ Respond(500, name)

\* the ReportLab renderer raised: generate_worksheet goes on to the LaTeX renderer,
\* do_POST answers 500
ReportLabFails(name) ==
    /\ reportlab_error' = name
    /\ IF route = "generate"
       THEN route_pc' = "latex" /\ UNCHANGED <<status, error>>
       ELSE Respond(500, name)

\* app.py lines 76-88, do_POST lines 44-57: KUMON_LEVELS[level], then generate_pdf
\* of the ReportLab renderer, which returns, raises TypeError on the layout it was
\* given, or cannot write its file
RenderReportLab ==
    /\ route_pc = "reportlab"
    /\ \/ /\ req_level \notin KnownLevels
          /\ ReportLabFails("KeyError")
          /\ UNCHANGED <<steps, pdf_problems, story, paths>>
       \/ /\ req_level \in KnownLevels
          /\ steps' = Append(steps, "reportlab")
          /\ pdf_problems' = Numbered(req_num_problems)
          /\ \/ /\ ~GeneratePdfRaises(req_level, pdf_problems', layout_spec)
                /\ story' = GeneratePdfPages(req_level, pdf_problems', layout_spec)
                /\ paths' = Append(paths, "reportlab")
                /\ route_pc' = "read"
                /\ UNCHANGED <<reportlab_error, status, error>>
             \/ /\ GeneratePdfMayRaise(req_level, pdf_problems', layout_spec)
                /\ ReportLabFails("TypeError")
                /\ UNCHANGED <<story, paths>>
             \/ /\ ReportLabFails("OSError")
                /\ UNCHANGED <<story, paths>>
    /\ UNCHANGED <<gen_vars, pdf_inside, layout_spec, sys_vars, route_request, suggestion>>

\* app.py lines 89-96: the LaTeX renderer after the ReportLab renderer raised
RenderLatex ==
    /\ route_pc = "latex"
    /\ \/ /\ req_level \notin KnownLevels
          /\ UNCHANGED <<steps, paths>>
          /\ Respond(500, "KeyError")
       \/ /\ req_level \in KnownLevels
          /\ steps' = Append(steps, "latex")
          /\ \/ /\ paths' = Append(paths, "latex")
                /\ route_pc' = "read"
                /\ UNCHANGED <<status, error>>
             \/ Respond(500, "RuntimeError") /\ UNCHANGED paths
    /\ UNCHANGED <<gen_vars, pdf_vars, sys_vars, route_request, reportlab_error, suggestion>>

\* app.py lines 140-182: KUMON_LEVELS[level] once, then for each of the two
\* worksheets the LaTeX renderer and, when it raises, the ReportLab renderer
PrintWorksheet ==
    /\ route_pc \in {"sheet1", "sheet2"}
    /\ \/ /\ req_level \notin KnownLevels
          /\ UNCHANGED <<steps, paths>>
          /\ Respond(500, "KeyError")
       \/ /\ req_level \in KnownLevels
          /\ \/ /\ steps' = Append(steps, "latex")
                /\ paths' = Append(paths, "latex")
                /\ route_pc' = (IF route_pc = "sheet1" THEN "sheet2" ELSE "twoup")
                /\ UNCHANGED <<status, error>>
             \/ /\ steps' = steps \o <<"latex", "reportlab">>
                /\ \/ /\ paths' = Append(paths, "reportlab")
                      /\ route_pc' = (IF route_pc = "sheet1" THEN "sheet2" ELSE "twoup")
                      /\ UNCHANGED <<status, error>>
                   \/ Respond(500, "Exception") /\ UNCHANGED paths
    /\ UNCHANGED <<gen_vars, pdf_vars, sys_vars, route_request, reportlab_error, suggestion>>

\* app.py lines 189-194: create_2up_print_layout(pdf_path1, pdf_path2)
TwoUpSimple ==
    /\ route_pc = "twoup"
    /\ steps' = Append(steps, TwoUpMethods[1])
    /\ route_pc' = (IF TwoUpMethods[1] \in can_produce THEN "read" ELSE "twoup_latex")
    /\ UNCHANGED <<gen_vars, pdf_vars, sys_vars, route_request, reportlab_error, paths, suggestion, status, error>>

\* app.py lines 196-201: the argument worksheet_path is a name bound nowhere, so
\* the call raises NameError before create_2up_print_layout is entered
TwoUpLatex ==
    /\ route_pc = "twoup_latex"
    /\ route_pc' = "twoup_reportlab"
    /\ UNCHANGED <<gen_vars, pdf_vars, sys_vars, route_request, reportlab_error, paths, suggestion, steps, status, error>>

\* app.py lines 204-230: NameError again, turned into RuntimeError
TwoUpReportLab ==
    /\ route_pc = "twoup_reportlab"
    /\ Respond(500, "RuntimeError")
    /\ UNCHANGED <<gen_vars, pdf_vars, sys_vars, route_request, reportlab_error, paths, suggestion, steps>>

\* the PDF is read and sent: app.py lines 98-111 and 235-246, do_POST lines 59-77
ReadPdf ==
    /\ route_pc = "read"
    /\ Respond(200, "")
    /\ UNCHANGED <<gen_vars, pdf_vars, sys_vars, route_request, reportlab_error, paths, suggestion, steps>>

NextRoute ==
    \/ CheckRequest
    \/ GenerateProblems
    \/ SuggestLayout
    \/ RenderReportLab
    \/ RenderLatex
    \/ PrintWorksheet
    \/ TwoUpSimple
    \/ TwoUpLatex
    \/ TwoUpReportLab
    \/ ReadPdf

SpecRoute == InitRoute /\ [][NextRoute]_vars

(***************************************************************************)
(* The output files of generate_pdf: two calls, made one after the other   *)
(* by generate_print_layout or by two requests of generate_worksheet that  *)
(* are served at the same time.                                            *)
(***************************************************************************)
MaxTicks == 3
TicksPerSecond == 2

Scenarios == {"print_layout", "two_requests"}
Calls == {1, 2}

\* datetime.now().strftime("%Y%m%d_%H%M%S"): the time in whole seconds
Timestamp(t) == t \div TicksPerSecond

\* os.path.join(output_dir, f"kumon_level_{level}_{timestamp}.pdf"); page_number
\* is no part of it
FilePath(lv, t) == [dir |-> "output", level |-> lv, stamp |-> Timestamp(t)]

\* generate_print_layout makes both calls with the level of the request
InitFiles ==
    /\ GenIdle
    /\ PdfIdle
    /\ RouteIdle
    /\ CompileIdle
    /\ TexIdle
    /\ scenario \in Scenarios
    /\ call_level \in [Calls -> {"A", "H"}]
    /\ scenario = "print_layout" => call_level[1] = call_level[2]
    /\ level = call_level[1]
    /\ now \in 0..(TicksPerSecond - 1)
    /\ call_pc = [c \in Calls |-> "start"]
    /\ pdf_path = [c \in Calls |-> NoPath]
    /\ disk = NoFiles
    /\ sent = [c \in Calls |-> 0]

\* time passes
Tick ==
    /\ now < MaxTicks
    /\ now' = now + 1
    /\ UNCHANGED <<gen_vars, pdf_vars, route_vars, cc_vars, tex_vars, out_calls, call_pc, pdf_path, disk, sent>>

\* lines 187-189 of the ReportLab renderer, lines 249-255 of the LaTeX renderer.
\* generate_print_layout calls for the second worksheet when the first is written.
NamePath(c) ==
    /\ call_pc[c] = "start"
    /\ (scenario = "print_layout" /\ c = 2) => call_pc[1] = "written"
    /\ pdf_path' = [pdf_path EXCEPT ![c] = FilePath(call_level[c], now)]
    /\ call_pc' = [call_pc EXCEPT ![c] = "named"]
    /\ UNCHANGED <<gen_vars, pdf_vars, route_vars, cc_vars, tex_vars, out_calls, now, disk, sent>>

\* doc.build of line 248, the compilation of line 286: the file at the path now
\* holds this call's worksheet
WritePdf(c) ==
    /\ call_pc[c] = "named"
    /\ disk' = (pdf_path[c] :> c) @@ disk
    /\ call_pc' = [call_pc EXCEPT ![c] = "written"]
    /\ UNCHANGED <<gen_vars, pdf_vars, route_vars, cc_vars, tex_vars, out_calls, now, pdf_path, sent>>

\* the caller reads the file back: app.py line 100; for the print layout
\* PdfReader(worksheet_pdf_path1) and PdfReader(worksheet_pdf_path2), lines 36 and
\* 50 of pdf_2up_layout.py, after both calls
ReadBack(c) ==
    /\ call_pc[c] = "written"
    /\ scenario = "print_layout" => \A d \in Calls : call_pc[d] \in {"written", "read"}
    /\ sent' = [sent EXCEPT ![c] = disk[pdf_path[c]]]
    /\ call_pc' = [call_pc EXCEPT ![c] = "read"]
    /\ UNCHANGED <<gen_vars, pdf_vars, route_vars, cc_vars, tex_vars, out_calls, now, pdf_path, disk>>

NextFiles ==
    \/ Tick
    \/ \E c \in Calls : NamePath(c)
    \/ \E c \in Calls : WritePdf(c)
    \/ \E c \in Calls : ReadBack(c)

SpecFiles == InitFiles /\ [][NextFiles]_vars

(***************************************************************************)
(* _compile_latex of LaTeXWorksheetGenerator (latex_generator.py) and of   *)
(* LaTeXPrintLayoutGenerator (latex_print_layout.py).                      *)
(***************************************************************************)
Generators == {"worksheet", "print_layout"}

\* the subprocess.run calls in the order of the text of latex_generator.py: lines
\* 551, 565, 578 and 591
Compilers == <<"ensured_tectonic", "tectonic", "xelatex", "pdflatex">>

\* what subprocess.run ends in: exit code 0, another exit code, FileNotFoundError,
\* subprocess.TimeoutExpired, another OSError
RunOutcomes == {"ok", "nonzero", "missing", "timeout", "oserror"}

\* the import of tectonic_setup failed (TECTONIC_AVAILABLE is False), or
\* ensure_tectonic raised
SetupOutcomes == {"unavailable", "setup_raises"}

StartDirs == {"/srv/app", "/"}
TexDir == "output"

\* LaTeXPrintLayoutGenerator does not use tectonic_setup and has no XeLaTeX step
InitCompile ==
    /\ GenIdle
    /\ PdfIdle
    /\ RouteIdle
    /\ OutIdle
    /\ TexIdle
    /\ level = ""
    /\ generator \in Generators
    /\ toolchain \in [{Compilers[i] : i \in 1..Len(Compilers)} -> RunOutcomes \cup SetupOutcomes]
    /\ \A c \in {"tectonic", "xelatex", "pdflatex"} : toolchain[c] \in RunOutcomes
    /\ generator = "print_layout"
          => toolchain["ensured_tectonic"] = "unavailable" /\ toolchain["xelatex"] = "missing"
    /\ tex_dir_exists \in BOOLEAN
    /\ started_in \in StartDirs
    /\ cwd = started_in
    /\ original_dir = ""
    /\ cc_pc = "getcwd"
    /\ ran = <<>>
    /\ pending = ""
    /\ cc_error = ""

\* a return or a raise inside the try statement: the finally clause runs first
Leave(how, exception) ==
    /\ pending' = how
    /\ cc_error' = exception
    /\ cc_pc' = "finally"

GoOn(next) ==
    /\ cc_pc' = next
    /\ UNCHANGED <<pending, cc_error>>

\* "original_dir = os.getcwd()": line 543, and line 120 of latex_print_layout.py
GetCwd ==
    /\ cc_pc = "getcwd"
    /\ original_dir' = cwd
    /\ cc_pc' = "chdir"
    /\ UNCHANGED <<gen_vars, pdf_vars, route_vars, out_vars, tex_vars, cc_machine, cwd, ran, pending,
                   cc_error>>

\* "os.chdir(tex_dir)" inside the try statement: line 545, and line 122
ChDir ==
    /\ cc_pc = "chdir"
    /\ IF tex_dir_exists
       THEN /\ cwd' = TexDir
            /\ GoOn(IF generator = "worksheet" THEN "ensured_tectonic" ELSE "tectonic")
       ELSE /\ Leave("raise", "FileNotFoundError")
            /\ UNCHANGED cwd
    /\ UNCHANGED <<gen_vars, pdf_vars, route_vars, out_vars, tex_vars, cc_machine, original_dir, ran>>

\* lines 548-561: Tectonic as ensure_tectonic found it; "except Exception: pass"
EnsuredTectonic ==
    /\ cc_pc = "ensured_tectonic"
    /\ LET outcome == toolchain["ensured_tectonic"]
       IN  IF outcome \in SetupOutcomes
           THEN GoOn("tectonic") /\ UNCHANGED ran
           ELSE /\ ran' = Append(ran, "ensured_tectonic")
                /\ IF outcome = "ok" THEN Leave("return", "") ELSE GoOn("tectonic")
    /\ UNCHANGED <<gen_vars, pdf_vars, route_vars, out_vars, tex_vars, cc_machine, cwd, original_dir>>

TryNext_RaiseOnNonZero(outcome, next) ==
    CASE outcome = "ok" -> Leave("return", "")
      [] outcome = "oserror" -> Leave("raise", "OSError")
      [] outcome = "nonzero" -> Leave("raise", "RuntimeError")
      [] OTHER -> GoOn(next)

\* lines 564-574 and 577-587: "if result.returncode == 0: return", and
\* "except (FileNotFoundError, subprocess.TimeoutExpired): pass"
TryNext(outcome, next) ==
    CASE outcome = "ok" -> Leave("return", "")
      [] outcome = "oserror" -> Leave("raise", "OSError")
      [] OTHER -> GoOn(next)

\* latex_print_layout.py lines 125-146: a Tectonic that is there and does not exit
\* with 0 ends the call
TectonicOrRaise(outcome) ==
    CASE outcome = "ok" -> Leave("return", "")
      [] outcome = "missing" -> GoOn("pdflatex")
      [] OTHER -> Leave("raise", "RuntimeError")

\* 'tectonic' of PATH: lines 564-574, and lines 125-146 of latex_print_layout.py
Tectonic ==
    /\ cc_pc = "tectonic"
    /\ ran' = Append(ran, "tectonic")
    /\ IF generator = "worksheet"
       THEN TryNext(toolchain["tectonic"], "xelatex")
       ELSE TectonicOrRaise(toolchain["tectonic"])
    /\ UNCHANGED <<gen_vars, pdf_vars, route_vars, out_vars, tex_vars, cc_machine, cwd, original_dir>>

\* lines 577-587
XeLaTeX ==
    /\ cc_pc = "xelatex"
    /\ ran' = Append(ran, "xelatex")
    /\ TryNext(toolchain["xelatex"], "pdflatex")
    /\ UNCHANGED <<gen_vars, pdf_vars, route_vars, out_vars, tex_vars, cc_machine, cwd, original_dir>>

\* lines 590-605, and lines 149-163 of latex_print_layout.py: the end of the try
\* statement is reached with exit code 0; TimeoutExpired is not caught
PdfLaTeX ==
    /\ cc_pc = "pdflatex"
    /\ ran' = Append(ran, "pdflatex")
    /\ LET outcome == toolchain["pdflatex"]
       IN  CASE outcome = "ok" -> Leave("return", "")
             [] outcome = "timeout" -> Leave("raise", "TimeoutExpired")
             [] outcome = "oserror" -> Leave("raise", "OSError")
             [] OTHER -> Leave("raise", "RuntimeError")
    /\ UNCHANGED <<gen_vars, pdf_vars, route_vars, out_vars, tex_vars, cc_machine, cwd, original_dir>>

Finally_OnReturnOnly ==
    /\ cc_pc = "finally"
    /\ cwd' = (IF pending = "return" THEN original_dir ELSE cwd)
    /\ cc_pc' = (IF pending = "return" THEN "returned" ELSE "raised")
    /\ UNCHANGED <<gen_vars, pdf_vars, route_vars, out_vars, tex_vars, cc_machine, original_dir, ran,
                   pending, cc_error>>

\* "finally: os.chdir(original_dir)": lines 606-607, and lines 164-165
Finally ==
    /\ cc_pc = "finally"
    /\ cwd' = original_dir
    /\ cc_pc' = (IF pending = "return" THEN "returned" ELSE "raised")
    /\ UNCHANGED <<gen_vars, pdf_vars, route_vars, out_vars, tex_vars, cc_machine, original_dir, ran,
                   pending, cc_error>>

NextCompile ==
    \/ GetCwd
    \/ ChDir
    \/ EnsuredTectonic
    \/ Tectonic
    \/ XeLaTeX
    \/ PdfLaTeX
    \/ Finally

SpecCompile == InitCompile /\ [][NextCompile]_vars

(***************************************************************************)
(* One item of the enumerate environment: lines 455-457, 488-490 and       *)
(* 512-514 of latex_generator.py.                                          *)
(***************************************************************************)
\* the problems: an operand, an operator, an operand and an optional "=",
\* and some texts of another make
TexLeft == {<<"3">>,
            <<"x">>,
            <<"1", "/", "2">>,
            <<"x", "^", "2">>,
            <<"x", "²">>,
            <<"s", "q", "r", "t", "(", "9", ")">>,
            <<"(", "x", " ", "-", " ", "3", ")", " ", "/", " ", "2">>,
            <<"(", "3", "/", "4", ")">>,
            <<"1", "2">>}

TexOperators == {<<" ", "×", " ">>, <<" ", "÷", " ">>, <<" ", "+", " ">>, <<" ", "-", " ">>, <<" ", "=", " ">>}

TexRight == {<<"4">>, <<"y">>}

TexTail == {<<>>, <<" ", "=">>}

tp_word == <<"T", "o", "m", " ", "h", "a", "s", " ", "3", " ", "a", "p", "p", "l", "e", "s", " ", "a", "n", "d", " ", "b", "u", "y", "s", " ", "1", "/", "2", " ", "m", "o", "r", "e">>
tp_dollar == <<"S", "o", "l", "v", "e", " ", "$", "x", " ", "+", " ", "1", "$", " ", "×", " ", "2", " ", "=">>
tp_percent == <<"5", "0", "%", " ", "o", "f", " ", "8", " ", "=">>
tp_subscript == <<"a", "_", "1", " ", "×", " ", "2", " ", "=">>
tp_number == <<"4", "2">>

TexProblems ==
    { l \o o \o r \o t : l \in TexLeft, o \in TexOperators, r \in TexRight, t \in TexTail }
      \cup {<<>>, tp_word, tp_dollar, tp_percent, tp_subscript, tp_number}

InitTex ==
    /\ GenIdle
    /\ PdfIdle
    /\ RouteIdle
    /\ OutIdle
    /\ CompileIdle
    /\ level = ""
    /\ problem \in TexProblems
    /\ formatted_problem = <<>>
    /\ escaped_problem = <<>>
    /\ tex_pc = "format_math"

\* "formatted_problem = self.format_math(problem)"
FormatProblem ==
    /\ tex_pc = "format_math"
    /\ formatted_problem' = FormatMath(problem)
    /\ tex_pc' = "escape_latex"
    /\ UNCHANGED <<gen_vars, pdf_vars, route_vars, out_vars, cc_vars, problem, escaped_problem>>

\* "escaped_problem = self.escape_latex(formatted_problem)"
EscapeProblem ==
    /\ tex_pc = "escape_latex"
    /\ escaped_problem' = EscapeLatex(formatted_problem)
    /\ tex_pc' = "item"
    /\ UNCHANGED <<gen_vars, pdf_vars, route_vars, out_vars, cc_vars, problem,
                   formatted_problem>>

NextTex ==
    \/ FormatProblem
    \/ EscapeProblem

SpecTex == InitTex /\ [][NextTex]_vars

(***************************************************************************)
(* Properties of generate_problems.                                        *)
(***************************************************************************)
\* the call returned a list built from the reply, not by the fallback generator
ReturnedParsed == pc = "done" /\ ret_line \in {RetFirstN, RetPadded}

\* the two passes are over and the length is not reconciled yet
Parsed == pc = "reconcile"

\* C1: for every reply and every requested count N >= 1 the returned list has
\* exactly N elements, each a non-empty string, on every return path (enough
\* parsed lines, padded lines, no parsed line, API exception).
C1_ExactlyNNonEmpty ==
    (pc = "done" /\ num_problems >= 1)
        => /\ Len(result) = num_problems
           /\ \A i \in 1..Len(result) : result[i] # <<>>
           /\ ret_line \in {RetFirstN, RetPadded, RetNoValid, RetExcept}

\* a padded list was returned: three valid lines, five problems asked for
C1_Witness ==
    /\ pc = "done"
    /\ ret_line = RetPadded
    /\ Len(ValidLines(reply)) = 3
    /\ num_problems = 5

\* C2: for N >= 1, when the reply holds at least N lines that pass filtering, the
\* call returns exactly the first N of them in the order of the reply, none
\* repeated, skipped or reordered.
C2_FirstNValid ==
    (pc = "done" /\ api_result = "content" /\ num_problems >= 1
         /\ Len(ValidLines(reply)) >= num_problems)
        => result = SubSeq(ValidLines(reply), 1, num_problems)

\* three different valid lines, two asked for: the third is cut off
C2_Witness ==
    /\ pc = "done"
    /\ api_result = "content"
    /\ num_problems = 2
    /\ Len(ValidLines(reply)) = 3
    /\ Cardinality({ValidLines(reply)[i] : i \in 1..3}) = 3

\* C3: for N >= 1, when the reply holds exactly k valid lines with 0 < k < N, the
\* padding loop returns a list of length N with result[i] = valid[i mod k] for
\* every 0 <= i < N.
C3_PaddingCyclic ==
    LET valid == ValidLines(reply)
        k == Len(valid)
    IN  (pc = "done" /\ api_result = "content" /\ 0 < k /\ k < num_problems)
            => /\ Len(result) = num_problems
               /\ \A i \in 0..(num_problems - 1) : result[i + 1] = valid[(i % k) + 1]

\* two different valid lines padded to five: more than twice k and no multiple of k
C3_Witness ==
    /\ pc = "done"
    /\ ret_line = RetPadded
    /\ num_problems = 5
    /\ Len(ValidLines(reply)) = 2
    /\ ValidLines(reply)[1] # ValidLines(reply)[2]

\* C4, as claimed: when no line of the reply passes filtering, the call signals a
\* NoValidProblems condition to its caller instead of returning a list.
C4_SignalsNoValidProblems ==
    (pc \in {"done", "raised"} /\ api_result = "content" /\ num_problems >= 1
         /\ ValidLines(reply) = <<>>)
        => pc = "raised"

\* C4, amended: when no line of the reply passes filtering, generate_problems
\* signals nothing: it calls the fallback generator itself and returns its N
\* problems from line 160.
C4_FallbackInside ==
    (pc \in {"done", "raised"} /\ api_result = "content" /\ num_problems >= 1
         /\ ValidLines(reply) = <<>>)
        => /\ pc = "done"
           /\ ret_line = RetNoValid
           /\ result = fallback_problems
           /\ Len(result) = num_problems

\* the reply made of "Note: foo", "# code" and an empty line, three problems asked for
C4_Witness ==
    /\ pc = "done"
    /\ reply = Join(<<ln_note, ln_hash, ln_blank>>)
    /\ num_problems = 3

\* the enumeration markers of C5, written out for the numbers the replies use
C5_Numbers == {1, 2, 3, 4, 5, 6, 7, 12}

C5_Markers ==
    UNION { { IntToStr(n) \o <<".">>,
              IntToStr(n) \o <<")">>,
              <<"(">> \o IntToStr(n) \o <<")">>,
              <<"P", "r", "o", "b", "l", "e", "m", " ">> \o IntToStr(n) \o <<":">>,
              <<"p", "r", "o", "b", "l", "e", "m", " ">> \o IntToStr(n) \o <<":">>,
              <<"P", "R", "O", "B", "L", "E", "M", " ">> \o IntToStr(n) \o <<":">> }
            : n \in C5_Numbers }

C5_HasMarker(line) == \E m \in C5_Markers : StartsWith(line, m)

\* what is left of a line once its marker and the whitespace around are taken away
C5_Remainder(line) ==
    LET m == CHOOSE m \in C5_Markers : StartsWith(line, m)
    IN  Strip(SubSeq(line, Len(m) + 1, Len(line)))

\* C5: a leading marker "n.", "n)", "(n)" or "Problem n:" (any letter case) is
\* removed from the start of a line and the remainder is kept as the problem: the
\* parsed problems of a reply whose lines all carry a marker are the remainders
\* that pass the tests, in order; "1. 3 x 4 =" / "2. 5 + 2 =" with N = 2 gives the
\* two remainders.
C5_MarkerRemoved ==
    /\ (Parsed /\ \A i \in 1..Len(lines) : C5_HasMarker(Strip(lines[i])))
           => valid_problems =
                  SelectSeq([i \in 1..Len(lines) |-> C5_Remainder(Strip(lines[i]))],
                            LAMBDA t : PassesFirstPass(t) /\ IsValidProblem(t))
    /\ (pc = "done" /\ reply = Join(<<ln_mul, ln_add>>) /\ num_problems = 2)
           => result = << <<"3", " ", "×", " ", "4", " ", "=">>,
                          <<"5", " ", "+", " ", "2", " ", "=">> >>

\* a reply of three lines with the markers "1.", "(4)" and "2." has been parsed
C5_Witness ==
    /\ Parsed
    /\ lines = <<ln_mul, mk_parens, ln_add>>
    /\ Len(valid_problems) = 3

\* the mathematical tokens of C6
C6_MathTokens == Digit \cup {"=", "+", "-", "×", "÷", "/", "²", "^", "(", ")"}

C6_HasMathToken(t) == \E i \in 1..Len(t) : t[i] \in C6_MathTokens

\* C6: a stripped line that the code and explanation rules do not reject is
\* accepted if and only if its length is at least 2 and it holds a mathematical
\* token or has a length between 5 and 200; every accepted line has length >= 2
\* and a line longer than 200 is accepted only with a mathematical token.
C6_AcceptanceTest ==
    Parsed =>
        /\ \A i \in 1..Len(lines) :
              LET t == Unmarked(lines[i])
              IN  (t # <<>> /\ ~IsCodeStart(t) /\ ~IsExplanation(t) /\ ~ContainsCodeWord(t))
                      => ((\E j \in 1..Len(valid_problems) : valid_problems[j] = t)
                             <=> /\ Len(t) >= 2
                                 /\ C6_HasMathToken(t) \/ (5 <= Len(t) /\ Len(t) <= 200))
        /\ \A j \in 1..Len(valid_problems) :
              /\ Len(valid_problems[j]) >= 2
              /\ Len(valid_problems[j]) > 200 => C6_HasMathToken(valid_problems[j])

\* a line of 201 characters that ends with "=" was accepted, between two others
C6_Witness ==
    /\ Parsed
    /\ Len(lines) = 3
    /\ lines[2] = ac_long_math
    /\ valid_problems = <<Unmarked(lines[1]), ac_long_math, Unmarked(lines[3])>>

\* the comment and code markers of C7, and its explanation prefixes
C7_CodeMarkers ==
    { <<"#">>, <<"/", "/">>, <<"/", "*">>, <<"d", "e", "f", " ">>,
      <<"i", "m", "p", "o", "r", "t", " ">>,
      <<"f", "u", "n", "c", "t", "i", "o", "n", " ">>,
      <<"p", "r", "i", "n", "t", "(">> }

\* the word, then whitespace, then a number, in any letter case
C7_Numbered(p, word) ==
    /\ Len(p) > Len(word)
    /\ Lower(SubSeq(p, 1, Len(word))) = word
    /\ \E k \in (Len(word) + 1)..(Len(p) - 1) :
          /\ \A j \in (Len(word) + 1)..k : p[j] \in Whitespace
          /\ p[k + 1] \in Digit

C7_Excluded(p) ==
    \/ \E m \in C7_CodeMarkers : StartsWith(p, m)
    \/ C7_Numbered(p, <<"p", "r", "o", "b", "l", "e", "m">>)
    \/ C7_Numbered(p, <<"e", "x", "a", "m", "p", "l", "e">>)
    \/ Lower(SubSeq(p, 1, Min(5, Len(p)))) = <<"n", "o", "t", "e", ":">>
    \/ Lower(SubSeq(p, 1, Min(5, Len(p)))) = <<"h", "i", "n", "t", ":">>

\* C7: no problem parsed from the reply begins, after marker removal, with a
\* comment or code marker (#, //, /*, def, import, function, print) nor with an
\* explanation prefix (Problem n, Example n, Note:, Hint:) in any letter case.
C7_NoCodeOrExplanation ==
    /\ Parsed => \A j \in 1..Len(valid_problems) : ~C7_Excluded(valid_problems[j])
    /\ ReturnedParsed => \A i \in 1..Len(result) : ~C7_Excluded(result[i])

\* a reply with the line "NOTE: 1 + 1 =" between two problems: two problems returned
C7_Witness ==
    /\ ReturnedParsed
    /\ lines = <<ln_mul, ex_NOTE, ln_add>>
    /\ num_problems = 2
    /\ Len(result) = 2

\* the code-identifying substrings of C8
C8_Substrings ==
    { <<"d", "e", "f", " ">>, <<"f", "u", "n", "c", "t", "i", "o", "n", "(">>,
      <<"r", "e", "t", "u", "r", "n", " ">>, <<"i", "m", "p", "o", "r", "t", " ">>,
      <<"p", "r", "i", "n", "t", "(">> }

C8_LooksLikeCode(p) == LET lowered == Lower(p) IN \E w \in C8_Substrings : Contains(lowered, w)

\* C8: no problem returned from a parsed reply, padded repetitions included, holds
\* "def ", "function(", "return ", "import " or "print(" in any letter case: a line
\* that holds one is dropped in the second pass even though it passed the first.
C8_NoCodeSubstring ==
    /\ Parsed => \A j \in 1..Len(valid_problems) : ~C8_LooksLikeCode(valid_problems[j])
    /\ ReturnedParsed => \A i \in 1..Len(result) : ~C8_LooksLikeCode(result[i])

\* "2 + Import 3" passed the first pass, and the padded result repeats the one
\* line that is left
C8_Witness ==
    /\ ReturnedParsed
    /\ ret_line = RetPadded
    /\ \E j \in 1..Len(problems) : problems[j] = cw_Import
    /\ num_problems = 3

\* C9, as claimed: two calls given the same reply and the same N return the same
\* list, for every reply, one with no valid line included.
C9_SameListAlways ==
    (run = 2 /\ pc = "done") => result = prev_result

\* C9, amended: two calls given the same reply and the same N return the same
\* list whenever the reply holds a valid line or N = 0; with no valid line and
\* N >= 1 the list comes from the random fallback generator.
C9_SameListWhenParsed ==
    (run = 2 /\ pc = "done" /\ (ValidLines(reply) # <<>> \/ num_problems = 0))
        => result = prev_result

\* the second call returned a padded list
C9_Witness ==
    /\ run = 2
    /\ pc = "done"
    /\ ret_line = RetPadded
    /\ num_problems >= 3
    /\ prev_result # <<>>

C18_ApiFailureFallsBack ==
    /\ pc # "raised"
    /\ api_result \in {"error", "no_content"}
          => /\ pc \in {"except", "fallback", "done"}
             /\ valid_problems = <<>>
             /\ pc = "done"
                   => /\ ret_line = RetExcept
                      /\ Len(result) = num_problems
                      /\ result = fallback_problems
                      /\ \A i \in 1..Len(result) : HasMath(result[i])

\* the reply held no content and three fallback problems were returned
C18_Witness ==
    /\ pc = "done"
    /\ api_result = "no_content"
    /\ num_problems = 3
    /\ Len(result) = 3
    /\ ret_line = RetExcept

\* the level or the topic of the request is missing or empty
C17_Incomplete == req_level \in {Missing, ""} \/ req_topic \in {Missing, ""}

\* C17: each of the three handlers answers a request whose level or topic is
\* missing or empty with status 400 and the error 'Level and topic are required',
\* and has called no collaborator by then: no model call, no layout call, no
\* renderer.  No other request gets a 400.
C17_RequiredFields ==
    route \in {"generate", "print_layout", "serverless"}
        => /\ C17_Incomplete
                 => /\ route_pc \in {"check", "done"}
                    /\ steps = <<>>
                    /\ suggestion = "unset"
                    /\ route_pc = "done"
                          => status = 400 /\ error = "Level and topic are required"
           /\ status = 400 => C17_Incomplete

\* the serverless handler refused a request with a level and an empty topic
C17_Witness ==
    /\ route = "serverless"
    /\ req_level = "H"
    /\ req_topic = ""
    /\ route_pc = "done"
    /\ status = 400
    /\ steps = <<>>

(***************************************************************************)
(* Properties of the layout.                                               *)
(***************************************************************************)
\* ReportLab's generate_pdf returned
Returned == renderer = "reportlab" /\ pdf_pc = "returned"

\* the problems of page k, 1 the front and 2 the back
PageProblems(k) == IF k = 1 THEN front_problems ELSE back_problems

SomePageInTwoColumns == \E k \in 1..Len(story) : story[k].columns = 2
EveryPageInTwoColumns == \A k \in 1..Len(story) : story[k].columns = 2

C11_AdvancedSet == {"G", "H", "I", "J", "K", "L", "M", "N", "O"}

C12_BasicDefaults ==
    (Returned /\ layout_spec = None /\ level \notin C11_AdvancedSet)
        => \A k \in 1..Len(story) :
              story[k].font = 11 /\ story[k].gap = Num(60) /\ story[k].columns = 1

\* C12, amended: with no override a level outside G to O has 11 pt and 0.6 inch
\* computed but is set in the Problem style of 14 pt, with 0.6 inch between
\* problems and in a single column whatever the count.
C12_BasicRendered ==
    (Returned /\ layout_spec = None /\ level \notin C11_AdvancedSet)
        => /\ problem_font_size = Num(11)
           /\ problem_spacing = Num(60)
           /\ use_two_columns = Bool(FALSE)
           /\ \A k \in 1..2 :
                 story[k].font = 14 /\ story[k].gap = Num(60) /\ story[k].columns = 1

\* level A, the largest count, no override
C12_Witness ==
    /\ Returned
    /\ level = "A"
    /\ Len(pdf_problems) = MaxCount
    /\ layout_spec = None
    /\ Len(story) = 2
    /\ story[2].columns = 1

\* the override asks for two columns
C13_AsksTwoColumns ==
    /\ layout_spec # None
    /\ "use_two_columns" \in DOMAIN layout_spec
    /\ layout_spec["use_two_columns"] = Bool(TRUE)

\* C13 as the spec states it: two columns only if the count exceeds 3, and with a
\* count above 3 an override asking for two columns gets them.
C13_TwoColumnsByCount ==
    Returned
        => /\ SomePageInTwoColumns => Len(pdf_problems) > 3
           /\ (Len(pdf_problems) > 3 /\ C13_AsksTwoColumns) => SomePageInTwoColumns

\* C13, amended: the count that matters is the page's.  A page laid out by the
\* ReportLab renderer is in two columns only if that page holds more than 3
\* problems, whatever the level and the override, and a page of more than 3
\* problems is in two columns when the override asks for them.
C13_TwoColumnsByPage ==
    renderer = "reportlab"
        => \A k \in 1..Len(story) :
              /\ story[k].columns = 2 => Len(PageProblems(k)) > 3
              /\ (Len(PageProblems(k)) > 3 /\ C13_AsksTwoColumns) => story[k].columns = 2
              /\ Len(pdf_problems) <= 3 => story[k].columns = 1

\* 7 problems and an override asking for two columns: the front page of 3 is in
\* one column, the back page of 4 in two
C13_Witness ==
    /\ Returned
    /\ C13_AsksTwoColumns
    /\ Len(pdf_problems) = 7
    /\ story[1].columns = 1
    /\ story[2].columns = 2

\* the level's own values
C14_LevelFont == IF level \in C11_AdvancedSet THEN Num(10) ELSE Num(11)
C14_LevelSpacing == IF level \in C11_AdvancedSet THEN Num(40) ELSE Num(60)

\* C14: a field of the override that is present replaces the default, a field that
\* is absent takes the default of the request's level.
C14_PartialOverride ==
    (renderer = "reportlab" /\ pdf_pc \notin {"idle", "decide"} /\ layout_spec # None)
        => /\ problem_font_size = IF "font_size" \in DOMAIN layout_spec
                                  THEN layout_spec["font_size"] ELSE C14_LevelFont
           /\ problem_spacing = IF "spacing_between_problems" \in DOMAIN layout_spec
                                THEN layout_spec["spacing_between_problems"]
                                ELSE C14_LevelSpacing
           /\ "use_two_columns" \in DOMAIN layout_spec
                 => use_two_columns = layout_spec["use_two_columns"]
           /\ ("use_two_columns" \notin DOMAIN layout_spec /\ level \in C11_AdvancedSet
                 /\ Len(pdf_problems) > 6) => use_two_columns = Bool(TRUE)

\* C15: a malformed value of the override is treated as absent: nothing is raised,
\* a font size that is no number gives the level's font, a spacing that is negative
\* or no number gives the level's spacing.
C15_MalformedIsAbsent ==
    (renderer = "reportlab" /\ layout_spec # None)
        => /\ pdf_pc # "raised"
           /\ pdf_pc \notin {"idle", "decide"}
                 => /\ ("font_size" \in DOMAIN layout_spec
                          /\ layout_spec["font_size"] = Bogus)
                       => problem_font_size = C14_LevelFont
                    /\ ("spacing_between_problems" \in DOMAIN layout_spec
                          /\ layout_spec["spacing_between_problems"] \in {Bogus, Num(-50)})
                       => problem_spacing = C14_LevelSpacing

\* the cells of both pages, front page first
WorksheetCells ==
    IF Len(story) = 2 THEN PageCells(story[1]) \o PageCells(story[2]) ELSE <<>>

\* the least m with 2m >= n, the greatest m with 2m <= n
Ceil2(n) == CHOOSE m \in 0..n : 2 * m >= n /\ 2 * m < n + 2
Floor2(n) == CHOOSE m \in 0..n : 2 * m <= n /\ 2 * m > n - 2

\* C16: a page in two columns, in either renderer, has the first ceil(n/2) of its
\* problems on the left and the others on the right: left then right is the page's
\* list, and the left column is never the shorter.
C16_ColumnSplit ==
    \A k \in 1..Len(story) :
        story[k].columns = 2
            => LET ps == PageProblems(k)
                   mid == Ceil2(Len(ps))
                   left == CellProblems(story[k].left)
                   right == CellProblems(story[k].right)
               IN  /\ left = SubSeq(ps, 1, mid)
                   /\ right = SubSeq(ps, mid + 1, Len(ps))
                   /\ left \o right = ps
                   /\ Len(left) >= Len(right)

\* a page of 7 in two columns: 4 on the left, 3 on the right
C16_Witness ==
    \E k \in 1..Len(story) :
        /\ story[k].columns = 2
        /\ Len(PageProblems(k)) = 7
        /\ Len(story[k].left) = 4
        /\ Len(story[k].right) = 3

\* C19: in both renderers the front page holds the first floor(n/2) problems and
\* the back page the others; the two pages together show every problem once, in the
\* order of the list, for every n from 0.
C19_FrontBackSplit ==
    /\ pdf_pc \in {"front", "back", "build", "compile", "returned", "raised"}
          => /\ front_problems = SubSeq(pdf_problems, 1, Floor2(Len(pdf_problems)))
             /\ back_problems = SubSeq(pdf_problems, Floor2(Len(pdf_problems)) + 1,
                                       Len(pdf_problems))
             /\ front_problems \o back_problems = pdf_problems
    /\ Len(story) = 2
          => /\ CellProblems(PageCells(story[1])) = front_problems
             /\ CellProblems(PageCells(story[2])) = back_problems
             /\ CellProblems(WorksheetCells) = pdf_problems

\* the LaTeX renderer put 3 of 7 problems on the front page and 4 on the back
C19_Witness ==
    /\ renderer = "latex"
    /\ pdf_pc = "returned"
    /\ Len(pdf_problems) = 7
    /\ Len(PageCells(story[1])) = 3
    /\ Len(PageCells(story[2])) = 4

\* C20: in the ReportLab renderer the problem at 0-based index j is labelled j + 1
\* on whichever page and in whichever column it is: the labels of the worksheet are
\* 1..n.
C20_LabelsFollowIndex ==
    (renderer = "reportlab" /\ Len(story) = 2)
        => /\ CellNumbers(WorksheetCells) = [i \in 1..Len(pdf_problems) |-> i]
           /\ \A i \in 1..Len(WorksheetCells) :
                 /\ WorksheetCells[i].number \in 1..Len(pdf_problems)
                 /\ pdf_problems[WorksheetCells[i].number] = WorksheetCells[i].problem

\* 9 problems, both pages in two columns: the right column of the back page starts
\* at 8
C20_Witness ==
    /\ Returned
    /\ Len(pdf_problems) = 9
    /\ EveryPageInTwoColumns
    /\ story[2].right[1].number = 8

\* C21: in the LaTeX renderer the labels of the back page are
\* len(front_problems) + 1, len(front_problems) + 2, ... in the single-column
\* layout as in the two-column layout.
C21_BackContinues ==
    (renderer = "latex" /\ Len(story) = 2)
        => CellNumbers(PageCells(story[2]))
             = [i \in 1..Len(back_problems) |-> Len(front_problems) + i]

\* C22: the LaTeX renderer never lays out a page of 3 or fewer problems in two
\* columns; such a page of an advanced level is in a single column.
C22_NoSmallTwoColumns ==
    (renderer = "latex" /\ Len(story) = 2)
        => \A k \in 1..2 :
              Len(PageProblems(k)) <= MinTwoColumnCount => story[k].columns = 1

\* C23: two generate_pdf calls never write to the same path: the two worksheets
\* of a print layout are two files, two requests served at the same time have a
\* file each, and every caller reads back the PDF its own call wrote.
C23_DistinctPaths ==
    /\ (\A c \in Calls : call_pc[c] \in {"named", "written", "read"})
          => pdf_path[1] # pdf_path[2]
    /\ \A c \in Calls : call_pc[c] = "read" => sent[c] = c

\* the 2-up methods generate_print_layout called, in the order of the calls
TwoUpCalls == SelectSeq(steps, LAMBDA st : \E i \in 1..Len(TwoUpMethods) : st = TwoUpMethods[i])

\* C24: in /api/generate-print-layout the 2-up methods are tried in the order
\* simple, LaTeX, ReportLab, each only after the previous one failed; a request
\* that came to the 2-up step is answered 200 whenever one of the three can
\* produce the sheet and 500 only when all three fail.
C24_AnyMethodSuffices ==
    (route = "print_layout" /\ route_pc = "done" /\ Len(TwoUpCalls) > 0)
        => /\ TwoUpCalls = SubSeq(TwoUpMethods, 1, Len(TwoUpCalls))
           /\ \A i \in 1..(Len(TwoUpCalls) - 1) : TwoUpCalls[i] \notin can_produce
           /\ status = 200 <=> can_produce # {}
           /\ status = 500 <=> can_produce = {}

\* generate_worksheet, the layout suggestion failed
C25_SuggestionFailed == route = "generate" /\ suggestion \in FailedSuggestions

\* what the ReportLab renderer puts on the pages for the request when it is given
\* no layout
C25_LevelDefault == GeneratePdfPages(req_level, Numbered(req_num_problems), None)

\* the ReportLab renderer returned the worksheet of the request
C25_Rendered == Len(story) = 2 /\ reportlab_error = ""

\* C25 as the spec states it: a failed layout suggestion never fails the request,
\* and the worksheet is rendered in the level's default layout, the one of a
\* request with no suggestion.
C25_DefaultLayoutAfterFailure ==
    C25_SuggestionFailed
        => /\ reportlab_error # "TypeError"
           /\ status = 500 => "reportlab" \in {steps[i] : i \in 1..Len(steps)}
                               \/ req_level \notin KnownLevels
           /\ C25_Rendered => story = C25_LevelDefault

\* C25, amended: a failed layout suggestion never fails the request: the renderer
\* is called with no layout or with the fallback dictionary of the level, neither
\* makes it raise, and the pages have the columns, the numbering and the spacing
\* of the level's default layout; the font is the style's with no layout and the
\* level's 10 or 11 pt with the fallback dictionary.
C25_LayoutFailureIsHarmless ==
    C25_SuggestionFailed
        => /\ layout_spec \in {None, SuggestedDefaults(req_level, req_num_problems)}
           /\ layout_spec = None <=> suggestion \in {"init_raised", "not_dict"}
           /\ reportlab_error # "TypeError"
           /\ status \in {0, 200, 500}
           /\ status = 500 => "reportlab" \in {steps[i] : i \in 1..Len(steps)}
                               \/ req_level \notin KnownLevels
           /\ C25_Rendered
                 => \A k \in 1..2 :
                       /\ [story[k] EXCEPT !.font = 0] = [C25_LevelDefault[k] EXCEPT !.font = 0]
                       /\ story[k].font = IF layout_spec = None
                                          THEN C25_LevelDefault[k].font
                                          ELSE LevelFont(req_level)

\* level H, 10 problems, the API call of the layout generator failed: the worksheet
\* is sent, two columns of 10 pt on both pages
C25_Witness ==
    /\ route = "generate"
    /\ suggestion = "fallback_dict"
    /\ req_level = "H"
    /\ req_num_problems = 10
    /\ status = 200
    /\ C25_Rendered
    /\ story[1].columns = 2
    /\ story[2].font = FontAdvanced

\* the place of a step in generate_worksheet
C26_Rank(st) ==
    CASE st = "generate_problems" -> 1
      [] st = "generate_layout_spec" -> 2
      [] st = "reportlab" -> 3
      [] st = "latex" -> 4
      [] OTHER -> 0

C26_Called(st) == \E i \in 1..Len(steps) : steps[i] = st

\* C26: in /api/generate the steps run in the order problem generation, layout
\* suggestion, ReportLab rendering; the LaTeX renderer is invoked only after the
\* ReportLab renderer raised; a request with level and topic is answered 200 with
\* exactly one PDF when either renderer returned, 500 with an error message when
\* both failed, and with no other status.
C26_GenerateOrder ==
    (route = "generate" /\ ~Not(req_level) /\ ~Not(req_topic))
        => /\ \A i, j \in 1..Len(steps) :
                 i < j => 0 < C26_Rank(steps[i]) /\ C26_Rank(steps[i]) < C26_Rank(steps[j])
           /\ steps # <<>> => steps[1] = "generate_problems"
           /\ (route_pc = "latex" \/ C26_Called("latex")) => reportlab_error # ""
           /\ status \in {0, 200, 500}
           /\ status # 0 <=> route_pc = "done"
           /\ Len(paths) <= 1
           /\ paths # <<>> => paths[1] = steps[Len(steps)]
           /\ route_pc = "done" => (status = 200 <=> Len(paths) = 1)
           /\ status = 200 => error = ""
           /\ status = 500 => error # ""
           /\ (status = 500 /\ C26_Called("reportlab"))
                 => reportlab_error # "" /\ C26_Called("latex")

\* all four steps: the ReportLab renderer raised and the LaTeX renderer's PDF is
\* sent
C26_Witness ==
    /\ route = "generate"
    /\ steps = <<"generate_problems", "generate_layout_spec", "reportlab", "latex">>
    /\ reportlab_error = "OSError"
    /\ paths = <<"latex">>
    /\ status = 200

(***************************************************************************)
(* Properties of _compile_latex.                                           *)
(***************************************************************************)
\* _compile_latex returned or raised
C27_Left == cc_pc \in {"returned", "raised"}

\* C27: _compile_latex of either generator leaves the working directory of the
\* process as it was before the call on every exit: a compiler succeeded, every
\* compiler failed, one timed out, none is installed.  While the compilers run the
\* process is in the directory of the .tex file.
C27_WorkingDirRestored ==
    /\ C27_Left => cwd = started_in
    /\ (cc_pc \in {"tectonic", "xelatex", "pdflatex"} /\ generator # "none") => cwd = TexDir

\* pdflatex timed out in the print-layout generator, after Tectonic was not found:
\* TimeoutExpired leaves the function and the process is back where it was
C27_Witness ==
    /\ generator = "print_layout"
    /\ cc_pc = "raised"
    /\ cc_error = "TimeoutExpired"
    /\ ran = <<"tectonic", "pdflatex">>
    /\ started_in = "/srv/app"
    /\ cwd = "/srv/app"

\* the place of a compiler in the order Tectonic, XeLaTeX, pdflatex
C28_Place(c) == CHOOSE k \in 1..Len(Compilers) : Compilers[k] = c

C28_Ran(c) == \E i \in 1..Len(ran) : ran[i] = c

\* C28: the worksheet generator's _compile_latex runs the compilers in the order
\* Tectonic (as set up, then as found on PATH), XeLaTeX, pdflatex; nothing is run
\* after a compiler that exited with 0; a Tectonic or XeLaTeX that is missing,
\* times out or exits with another code is followed by the next compiler; the
\* call raises only when no compiler it ran succeeded, and returns only when the
\* last one did.
C28_CompilerOrder ==
    generator = "worksheet"
        => /\ \A i, j \in 1..Len(ran) : i < j => C28_Place(ran[i]) < C28_Place(ran[j])
           /\ \A i \in 1..(Len(ran) - 1) : toolchain[ran[i]] # "ok"
           /\ (ran # <<>> /\ toolchain[ran[Len(ran)]] = "ok")
                 => cc_pc \in {"finally", "returned"} /\ pending = "return"
           /\ C27_Left
                 => /\ \A k \in 1..(Len(Compilers) - 1) :
                          (C28_Ran(Compilers[k])
                             /\ toolchain[Compilers[k]] \in {"missing", "timeout", "nonzero"})
                              => C28_Ran(Compilers[k + 1])
                    /\ (tex_dir_exists /\ toolchain[Compilers[1]] \in SetupOutcomes)
                          => C28_Ran(Compilers[2])
           /\ cc_pc = "raised" => \A i \in 1..Len(ran) : toolchain[ran[i]] # "ok"
           /\ cc_pc = "returned" => ran # <<>> /\ toolchain[ran[Len(ran)]] = "ok"

\* Tectonic is not installed, XeLaTeX exits with an error, pdflatex compiles the
\* file
C28_Witness ==
    /\ generator = "worksheet"
    /\ cc_pc = "returned"
    /\ toolchain["xelatex"] = "nonzero"
    /\ ran = <<"tectonic", "xelatex", "pdflatex">>

(***************************************************************************)
(* Properties of the LaTeX text of an item.                                *)
(***************************************************************************)
\* the commands format_math inserts: the five of the symbols (none of the
\* problems holds the sixth), the fraction, the root and the exponent
TexCommands == {tx_times, tx_div, tx_leq, tx_geq, tx_pm, tx_frac \o <<"{">>,
                tx_sqrt \o <<"{">>, <<"^", "{">>}

\* the places of text s where the command stands
PlacesOf(s, command) ==
    { i \in 1..Len(s) : i + Len(command) - 1 <= Len(s)
                           /\ SubSeq(s, i, i + Len(command) - 1) = command }

\* the places of text s that lie between an opening "$" and its closing "$"
MathPlaces(s) ==
    { i \in 1..Len(s) :
        /\ s[i] # "$"
        /\ Cardinality({ j \in 1..(i - 1) : s[j] = "$" }) % 2 = 1
        /\ \E j \in (i + 1)..Len(s) : s[j] = "$" }

\* C29: for a problem text without "$", every command that format_math inserted
\* stands in escaped_problem as it was inserted and inside a math-mode segment.
C29_CommandsStayInMath ==
    (tex_pc = "item" /\ ~HasAny(problem, {"$"}))
        => \A command \in TexCommands :
              Cardinality(PlacesOf(escaped_problem, command) \cap MathPlaces(escaped_problem))
                  = Cardinality(PlacesOf(formatted_problem, command))
                      - Cardinality(PlacesOf(problem, command))

(***************************************************************************)
(* Properties of the marker removal.                                       *)
(***************************************************************************)
\* C30: a line whose leading number is part of the problem itself (a decimal, a
\* ratio, a parenthesised operand) carries no enumeration marker: the iteration
\* of the loop that reads it appends its text, unchanged, to the problems.
C30_LeadingNumberKept ==
    [][(/\ pc = "parse"
        /\ idx <= Len(lines)
        /\ Strip(lines[idx]) \in {nm_decimal, nm_ratio, nm_operand})
          => problems' = Append(problems, Strip(lines[idx]))]_vars

====
